---- MODULE Spec2Model ----
(***************************************************************************)
(* A model of the microstack runtime: the stack orchestrator               *)
(* (InMemoryCloudFormationBackend), the backends it drives (function       *)
(* registry, log ledger, object store) and the function runtime            *)
(* (InMemoryLambdaBackend.invokeFunction).                                 *)
(***************************************************************************)
EXTENDS Integers, Sequences, FiniteSets, TLC

----------------------------------------------------------------------------
(* Bounds *)

\* number of stack operations (createStack / updateStack / deleteStack) in a run
MaxTasks == 3
\* number of invokeFunction calls in a run
MaxInvocations == 2

----------------------------------------------------------------------------
(* Resource types and names *)

LambdaType == "AWS::Lambda::Function"
LogGroupType == "AWS::Logs::LogGroup"
BucketType == "AWS::S3::Bucket"
TopicType == "AWS::SNS::Topic"

AcceptedRuntime == "nodejs20.x"

StackNames == {"s1"}
FunctionNames == {"f1"}
GroupNames == {"g1"}
BucketNames == {"b1"}
ObjectKeys == {"k"}

\* validateBucketName: /^[a-z0-9][a-z0-9.-]{1,61}[a-z0-9]$/
validateBucketName(name) == name \in BucketNames

NoReason == <<>>

\* An error value: the HttpError code ("" for a plain Error) and its message
Err(code, text, arg) == [code |-> code, message |-> <<text, arg>>]

----------------------------------------------------------------------------
(* Templates.  A template body is modelled by the document it parses to:   *)
(* the Resources mapping as the sequence of its entries in key order.      *)

\* Name is the required name property of the type ("" when the template
\* leaves it out), Unknown the keys of Properties the type does not allow,
\* Ref the logical id that Environment.Variables.TARGET refers to ("" if none)
Res(id, type, name, deps) ==
    [id |-> id, Type |-> type, Name |-> name, DependsOn |-> deps, Runtime |-> AcceptedRuntime,
     Unknown |-> {}, Ref |-> ""]

TBucket == [parses |-> TRUE,
            Resources |-> << Res("B", BucketType, "b1", <<>>) >>]
\* a function alone
TFunction == [parses |-> TRUE,
              Resources |-> << Res("F", LambdaType, "f1", <<>>) >>]
\* three resources, F after B after G
TThree == [parses |-> TRUE,
           Resources |-> << Res("F", LambdaType, "f1", <<"B", "G">>),
                            Res("B", BucketType, "b1", <<"G">>),
                            Res("G", LogGroupType, "g1", <<>>) >>]
\* a supported resource followed by an unsupported one
TTopic == [parses |-> TRUE,
           Resources |-> << Res("G", LogGroupType, "g1", <<>>),
                            Res("X", TopicType, "t1", <<"G">>) >>]
TCycle == [parses |-> TRUE,
           Resources |-> << Res("F", LambdaType, "f1", <<"G">>),
                            Res("G", LogGroupType, "g1", <<"F">>) >>]
TSelf == [parses |-> TRUE,
          Resources |-> << Res("G", LogGroupType, "g1", <<"G">>) >>]
TDangling == [parses |-> TRUE,
              Resources |-> << Res("G", LogGroupType, "g1", <<"Z">>) >>]
\* a function whose environment refers to the bucket it depends on
TRef == [parses |-> TRUE,
         Resources |-> << [Res("F", LambdaType, "f1", <<"B">>) EXCEPT !.Ref = "B"],
                          Res("B", BucketType, "b1", <<>>) >>]
\* the same without DependsOn: the function comes first in the creation order
TRefEarly == [parses |-> TRUE,
              Resources |-> << [Res("F", LambdaType, "f1", <<>>) EXCEPT !.Ref = "B"],
                               Res("B", BucketType, "b1", <<>>) >>]
\* a function that refers to a logical id the template does not have
TRefMissing == [parses |-> TRUE,
                Resources |-> << [Res("F", LambdaType, "f1", <<>>) EXCEPT !.Ref = "Z"] >>]
\* a function that refers to itself
TRefSelf == [parses |-> TRUE,
             Resources |-> << [Res("F", LambdaType, "f1", <<>>) EXCEPT !.Ref = "F"] >>]
\* a bucket with a property the type does not allow
TUnknownProperty ==
    [parses |-> TRUE,
     Resources |-> << [Res("B", BucketType, "b1", <<>>) EXCEPT !.Unknown = {"Tags"}] >>]
\* a bucket without BucketName
TMissingProperty == [parses |-> TRUE,
                     Resources |-> << Res("B", BucketType, "", <<>>) >>]
\* a body that is neither JSON nor YAML, or an object without Resources
TGarbage == [parses |-> FALSE, Resources |-> << >>]
\* { "Resources": {} }
TEmpty == [parses |-> TRUE, Resources |-> << >>]

TemplateBodies ==
    {TBucket, TFunction, TThree, TTopic, TCycle, TSelf, TDangling, TGarbage,
     TUnknownProperty, TMissingProperty}

Range(s) == {s[i] : i \in 1..Len(s)}

RECURSIVE Reverse(_)
Reverse(s) == IF s = <<>> THEN <<>> ELSE Append(Reverse(Tail(s)), Head(s))

Ids(resources) == {resources[i].id : i \in 1..Len(resources)}

\* template.Resources[logicalId]
Lookup(resources, logicalId) ==
    resources[CHOOSE i \in 1..Len(resources) : resources[i].id = logicalId]

\* parseTemplate: throws unless the body parses to a mapping with Resources
parseTemplate(body) == [ok |-> body.parses, Resources |-> body.Resources]

\* a validation that accepts any properties
validatePropertiesLax(resource) == TRUE

\* validateProperties: a supported type has only allowed properties and its
\* required name; other types are left to fail during creation
validateProperties(resource) ==
    resource.Type \in {LambdaType, LogGroupType, BucketType} =>
        /\ resource.Unknown = {}
        /\ resource.Name # ""
        /\ resource.Type = LambdaType => resource.Runtime # ""

\* validateTemplate: for every resource, validateDependsOn (each DependsOn
\* target exists) and validateProperties
validateTemplate(template) ==
    \A i \in 1..Len(template.Resources) :
        /\ Range(template.Resources[i].DependsOn) \subseteq Ids(template.Resources)
        /\ validateProperties(template.Resources[i])

\* computeCreationOrder: depth-first visit in key order; acc.error is the
\* "circular DependsOn reference detected" validation error
RECURSIVE visit(_, _, _)
RECURSIVE visitAll(_, _, _)
visitAll(resources, deps, acc) ==
    IF deps = <<>> \/ acc.error THEN acc
    ELSE visitAll(resources, Tail(deps), visit(resources, Head(deps), acc))

\* a visit that emits the resource before its dependencies
visitPreOrder(resources, logicalId, acc) ==
    IF acc.error \/ logicalId \in acc.visited THEN acc
    ELSE IF logicalId \in acc.visiting THEN [acc EXCEPT !.error = TRUE]
    ELSE LET entered == [acc EXCEPT !.visiting = @ \cup {logicalId},
                                    !.order = Append(@, logicalId)]
             after == visitAll(resources, Lookup(resources, logicalId).DependsOn, entered)
         IN IF after.error THEN after
            ELSE [after EXCEPT !.visited = @ \cup {logicalId},
                               !.visiting = @ \ {logicalId}]

visit(resources, logicalId, acc) ==
    IF acc.error \/ logicalId \in acc.visited THEN acc
    ELSE IF logicalId \in acc.visiting THEN [acc EXCEPT !.error = TRUE]
    ELSE LET entered == [acc EXCEPT !.visiting = @ \cup {logicalId}]
             after == visitAll(resources, Lookup(resources, logicalId).DependsOn, entered)
         IN IF after.error THEN after
            ELSE [after EXCEPT !.visited = @ \cup {logicalId},
                               !.visiting = @ \ {logicalId},
                               !.order = Append(@, logicalId)]

\* an order that walks the keys of the mapping from the last to the first
computeCreationOrderFromLast(resources) ==
    visitAll(resources,
             [i \in 1..Len(resources) |-> resources[Len(resources) + 1 - i].id],
             [order |-> <<>>, visiting |-> {}, visited |-> {}, error |-> FALSE])

computeCreationOrder(resources) ==
    visitAll(resources,
             [i \in 1..Len(resources) |-> resources[i].id],
             [order |-> <<>>, visiting |-> {}, visited |-> {}, error |-> FALSE])

----------------------------------------------------------------------------
(* Partial maps (Map<string, T>) *)

EmptyMap == << >>
MapPut(m, k, v) == [x \in (DOMAIN m) \cup {k} |-> IF x = k THEN v ELSE m[x]]
MapDel(m, k) == [x \in (DOMAIN m) \ {k} |-> m[x]]

----------------------------------------------------------------------------
(* The backends the orchestrator drives.  be = [functions, groups, buckets] *)

\* the bundle createLambdaZip builds from inline source: one file index.mjs
createLambdaZip(source) == [files |-> {"index.mjs"}, source |-> source, valid |-> TRUE]

\* InMemoryLambdaBackend.createFunction
createFunction(functions, input) ==
    IF input.FunctionName \in DOMAIN functions
    THEN [ok |-> FALSE, functions |-> functions,
          err |-> Err("ResourceConflictException", "Function already exists: ", input.FunctionName)]
    ELSE IF input.Runtime # AcceptedRuntime
    THEN [ok |-> FALSE, functions |-> functions,
          err |-> Err("InvalidParameterValueException", "Unsupported runtime: ", input.Runtime)]
    ELSE [ok |-> TRUE, err |-> Err("", "", ""),
          functions |-> MapPut(functions, input.FunctionName,
              [functionName |-> input.FunctionName,
               runtime |-> input.Runtime,
               handler |-> input.Handler,
               timeout |-> IF input.Timeout = <<>> THEN 3 ELSE input.Timeout[1],
               environment |-> input.Environment,
               zipFile |-> input.ZipFile,
               version |-> 1])]

\* InMemoryLambdaBackend.deleteFunction
deleteFunction(functions, name) ==
    IF name \notin DOMAIN functions
    THEN [ok |-> FALSE, functions |-> functions,
          err |-> Err("ResourceNotFoundException", "Function not found: ", name)]
    ELSE [ok |-> TRUE, err |-> Err("", "", ""), functions |-> MapDel(functions, name)]

\* InMemoryCloudWatchLogsBackend.createLogGroup
createLogGroup(groups, name) ==
    IF name \in DOMAIN groups
    THEN [ok |-> FALSE, groups |-> groups,
          err |-> Err("ResourceAlreadyExistsException", "The specified log group already exists: ", name)]
    ELSE [ok |-> TRUE, err |-> Err("", "", ""),
          groups |-> MapPut(groups, name, [streams |-> EmptyMap, storedBytes |-> 0])]

\* InMemoryCloudWatchLogsBackend.deleteLogGroup
deleteLogGroup(groups, name) ==
    IF name \notin DOMAIN groups
    THEN [ok |-> FALSE, groups |-> groups,
          err |-> Err("ResourceNotFoundException", "The specified log group does not exist: ", name)]
    ELSE [ok |-> TRUE, err |-> Err("", "", ""), groups |-> MapDel(groups, name)]

\* InMemoryS3Backend.createBucket
createBucket(buckets, name) ==
    IF ~validateBucketName(name)
    THEN [ok |-> FALSE, buckets |-> buckets,
          err |-> Err("InvalidBucketName", "The specified bucket is not valid: ", name)]
    ELSE IF name \in DOMAIN buckets
    THEN [ok |-> FALSE, buckets |-> buckets,
          err |-> Err("BucketAlreadyOwnedByYou", "The requested bucket name is not available: ", name)]
    ELSE [ok |-> TRUE, err |-> Err("", "", ""), buckets |-> MapPut(buckets, name, {})]

\* a deleteBucket that does not look into the bucket
deleteBucketWithObjects(buckets, name) ==
    IF name \notin DOMAIN buckets
    THEN [ok |-> FALSE, buckets |-> buckets,
          err |-> Err("NoSuchBucket", "The specified bucket does not exist: ", name)]
    ELSE [ok |-> TRUE, err |-> Err("", "", ""), buckets |-> MapDel(buckets, name)]

\* InMemoryS3Backend.deleteBucket
deleteBucket(buckets, name) ==
    IF name \notin DOMAIN buckets
    THEN [ok |-> FALSE, buckets |-> buckets,
          err |-> Err("NoSuchBucket", "The specified bucket does not exist: ", name)]
    ELSE IF buckets[name] # {}
    THEN [ok |-> FALSE, buckets |-> buckets,
          err |-> Err("BucketNotEmpty", "The bucket you tried to delete is not empty: ", name)]
    ELSE [ok |-> TRUE, err |-> Err("", "", ""), buckets |-> MapDel(buckets, name)]

----------------------------------------------------------------------------
(* The orchestrator's adapters *)

\* a resolution that takes the target in any status
resolveRefAnyStatus(value, stack) ==
    LET found == {i \in 1..Len(stack.resources) :
                     stack.resources[i].logicalResourceId = value}
    IN IF found = {}
       THEN [ok |-> FALSE, value |-> "",
             err |-> Err("ValidationError", "Ref target does not exist or is unresolved: ", value)]
       ELSE [ok |-> TRUE, err |-> Err("", "", ""),
             value |-> stack.resources[CHOOSE i \in found : \A j \in found : i <= j].physicalResourceId]

\* resolveRef: the physical id of the first record of the logical id that is
\* CREATE_COMPLETE, a validation error if there is none
resolveRef(value, stack) ==
    LET found == {i \in 1..Len(stack.resources) :
                     /\ stack.resources[i].logicalResourceId = value
                     /\ stack.resources[i].resourceStatus = "CREATE_COMPLETE"}
    IN IF found = {}
       THEN [ok |-> FALSE, value |-> "",
             err |-> Err("ValidationError", "Ref target does not exist or is unresolved: ", value)]
       ELSE [ok |-> TRUE, err |-> Err("", "", ""),
             value |-> stack.resources[CHOOSE i \in found : \A j \in found : i <= j].physicalResourceId]

\* resolveValue over the Properties of a function: Environment.Variables with
\* TARGET resolved, or the error of the resolution
resolveValue(res, stack) ==
    IF res.Ref = "" THEN [ok |-> TRUE, err |-> Err("", "", ""), Environment |-> EmptyMap]
    ELSE LET r == resolveRef(res.Ref, stack)
         IN [ok |-> r.ok, err |-> r.err,
             Environment |-> IF r.ok THEN [v \in {"TARGET"} |-> r.value] ELSE EmptyMap]

\* createResource: the adapter call for one template resource
createResource(stack, res, be) ==
    IF res.Type = LogGroupType
    THEN LET r == createLogGroup(be.groups, res.Name)
         IN [ok |-> r.ok, err |-> r.err, physicalResourceId |-> res.Name,
             be |-> [be EXCEPT !.groups = r.groups]]
    ELSE IF res.Type = LambdaType
    THEN LET resolved == resolveValue(res, stack)
             r == createFunction(be.functions,
                    [FunctionName |-> res.Name, Runtime |-> res.Runtime,
                     Handler |-> <<"i", ".", "h">>, Timeout |-> <<>>,
                     Environment |-> resolved.Environment, ZipFile |-> createLambdaZip("ok")])
         IN IF ~resolved.ok
            THEN [ok |-> FALSE, err |-> resolved.err, physicalResourceId |-> res.id, be |-> be]
            ELSE [ok |-> r.ok, err |-> r.err, physicalResourceId |-> res.Name,
                  be |-> [be EXCEPT !.functions = r.functions]]
    ELSE IF res.Type = BucketType
    THEN LET r == createBucket(be.buckets, res.Name)
         IN [ok |-> r.ok, err |-> r.err, physicalResourceId |-> res.Name,
             be |-> [be EXCEPT !.buckets = r.buckets]]
    ELSE [ok |-> FALSE, err |-> Err("", "Unsupported resource type: ", res.Type),
          physicalResourceId |-> res.id, be |-> be]

\* deleteResource: the deletion adapter for one resource record
deleteResource(resource, be) ==
    IF resource.resourceType = LambdaType
    THEN LET r == deleteFunction(be.functions, resource.physicalResourceId)
         IN [ok |-> r.ok, err |-> r.err, be |-> [be EXCEPT !.functions = r.functions]]
    ELSE IF resource.resourceType = LogGroupType
    THEN LET r == deleteLogGroup(be.groups, resource.physicalResourceId)
         IN [ok |-> r.ok, err |-> r.err, be |-> [be EXCEPT !.groups = r.groups]]
    ELSE IF resource.resourceType = BucketType
    THEN LET r == deleteBucket(be.buckets, resource.physicalResourceId)
         IN [ok |-> r.ok, err |-> r.err, be |-> [be EXCEPT !.buckets = r.buckets]]
    ELSE [ok |-> TRUE, err |-> Err("", "", ""), be |-> be]

\* a tolerance test that misses the bucket's not-found code
isIgnorableDeleteErrorNoBucket(resourceType, error) ==
    IF error.code = "" THEN FALSE
    ELSE \/ resourceType = LambdaType /\ error.code = "ResourceNotFoundException"
         \/ resourceType = LogGroupType /\ error.code = "ResourceNotFoundException"

isIgnorableDeleteError(resourceType, error) ==
    IF error.code = "" THEN FALSE
    ELSE \/ resourceType = LambdaType /\ error.code = "ResourceNotFoundException"
         \/ resourceType = LogGroupType /\ error.code = "ResourceNotFoundException"
         \/ resourceType = BucketType /\ error.code = "NoSuchBucket"

----------------------------------------------------------------------------
(* Stack records *)

StackType == "AWS::CloudFormation::Stack"

\* addStackEvent: prepend a stack-level event
addStackEvent(stack, name, status, reason) ==
    [stack EXCEPT !.events =
        << [logicalResourceId |-> name, physicalResourceId |-> name,
            resourceType |-> StackType, resourceStatus |-> status,
            resourceStatusReason |-> reason] >> \o @]

\* a journal that grows at its old end
addResourceEventAppends(stack, resource, status, reason) ==
    [stack EXCEPT !.events =
        @ \o << [logicalResourceId |-> resource.logicalResourceId,
                 physicalResourceId |-> resource.physicalResourceId,
                 resourceType |-> resource.resourceType, resourceStatus |-> status,
                 resourceStatusReason |-> reason] >>]

\* addResourceEvent: prepend a resource-level event
addResourceEvent(stack, resource, status, reason) ==
    [stack EXCEPT !.events =
        << [logicalResourceId |-> resource.logicalResourceId,
            physicalResourceId |-> resource.physicalResourceId,
            resourceType |-> resource.resourceType, resourceStatus |-> status,
            resourceStatusReason |-> reason] >> \o @]

\* stack.resources.find(item => item.logicalResourceId === logicalId): its index, 0 if none
FindResource(stack, logicalId) ==
    IF \E i \in 1..Len(stack.resources) : stack.resources[i].logicalResourceId = logicalId
    THEN CHOOSE i \in 1..Len(stack.resources) :
            /\ stack.resources[i].logicalResourceId = logicalId
            /\ \A j \in 1..(i-1) : stack.resources[j].logicalResourceId # logicalId
    ELSE 0

\* an iteration that takes every rejection of the adapter for a failure
DeleteOneStrict(stack, logicalId, be) ==
    LET i == FindResource(stack, logicalId) IN
    IF i = 0 THEN [stack |-> stack, be |-> be, failed |-> NoReason]
    ELSE
    LET s1 == [stack EXCEPT !.resources[i].resourceStatus = "DELETE_IN_PROGRESS"]
        s2 == addResourceEvent(s1, s1.resources[i], "DELETE_IN_PROGRESS", NoReason)
        r == deleteResource(s2.resources[i], be)
    IN IF r.ok
       THEN LET s3 == [s2 EXCEPT !.resources[i].resourceStatus = "DELETE_COMPLETE",
                                 !.resources[i].resourceStatusReason = NoReason]
            IN [stack |-> addResourceEvent(s3, s3.resources[i], "DELETE_COMPLETE", NoReason),
                be |-> r.be, failed |-> NoReason]
       ELSE LET s3 == [s2 EXCEPT !.resources[i].resourceStatus = "DELETE_FAILED",
                                 !.resources[i].resourceStatusReason = r.err.message]
            IN [stack |-> addResourceEvent(s3, s3.resources[i], "DELETE_FAILED", r.err.message),
                be |-> r.be, failed |-> r.err.message]

\* One iteration of the loop of deleteResourcesByOrder.
\* failed = the reason returned (the walk stops), NoReason to continue.
DeleteOne(stack, logicalId, be) ==
    LET i == FindResource(stack, logicalId) IN
    IF i = 0 THEN [stack |-> stack, be |-> be, failed |-> NoReason]
    ELSE
    LET s1 == [stack EXCEPT !.resources[i].resourceStatus = "DELETE_IN_PROGRESS"]
        s2 == addResourceEvent(s1, s1.resources[i], "DELETE_IN_PROGRESS", NoReason)
        r == deleteResource(s2.resources[i], be)
    IN IF r.ok \/ isIgnorableDeleteError(s2.resources[i].resourceType, r.err)
       THEN LET s3 == [s2 EXCEPT !.resources[i].resourceStatus = "DELETE_COMPLETE",
                                 !.resources[i].resourceStatusReason = NoReason]
            IN [stack |-> addResourceEvent(s3, s3.resources[i], "DELETE_COMPLETE", NoReason),
                be |-> r.be, failed |-> NoReason]
       ELSE LET s3 == [s2 EXCEPT !.resources[i].resourceStatus = "DELETE_FAILED",
                                 !.resources[i].resourceStatusReason = r.err.message]
            IN [stack |-> addResourceEvent(s3, s3.resources[i], "DELETE_FAILED", r.err.message),
                be |-> r.be, failed |-> r.err.message]

\* What an iteration of a creation loop records once the adapter call has
\* settled with outcome r: s2 is the stack with the placeholder pushed at
\* index i.  failedStatus = "" leaves the placeholder as it is on failure (the
\* rollback loop has no inner catch).
CreateOutcome(s2, i, res, r, complete, failedStatus) ==
    IF r.ok
    THEN LET s3 == [s2 EXCEPT !.resources[i].physicalResourceId = r.physicalResourceId,
                              !.resources[i].resourceStatus = complete]
             s4 == addResourceEvent(s3, s3.resources[i], complete, NoReason)
         IN [ok |-> TRUE, reason |-> NoReason, err |-> r.err, be |-> r.be,
             stack |-> [s4 EXCEPT !.creationOrder = Append(@, res.id)]]
    ELSE IF failedStatus = ""
    THEN [ok |-> FALSE, reason |-> r.err.message, err |-> r.err, be |-> r.be, stack |-> s2]
    ELSE LET s3 == [s2 EXCEPT !.resources[i].resourceStatus = failedStatus,
                              !.resources[i].resourceStatusReason = r.err.message]
         IN [ok |-> FALSE, reason |-> r.err.message, err |-> r.err, be |-> r.be,
             stack |-> addResourceEvent(s3, s3.resources[i], failedStatus, r.err.message)]

\* the outcome with the created id moved to the front of creationOrder
Prepended(outcome, stack, res) ==
    IF outcome.ok
    THEN [outcome EXCEPT !.stack.creationOrder = <<res.id>> \o stack.creationOrder]
    ELSE outcome

\* an iteration that puts the created id at the front of creationOrder
CreateOnePrepends(stack, res, be, inProgress, complete, failedStatus) ==
    LET placeholder == [logicalResourceId |-> res.id, physicalResourceId |-> res.id,
                        resourceType |-> res.Type, resourceStatus |-> inProgress,
                        resourceStatusReason |-> NoReason]
        s1 == [stack EXCEPT !.resources = Append(@, placeholder)]
        s2 == addResourceEvent(s1, placeholder, inProgress, NoReason)
    IN Prepended(CreateOutcome(s2, Len(stack.resources) + 1, res, createResource(s2, res, be),
                               complete, failedStatus),
                 stack, res)

\* One iteration of a creation loop: push the placeholder, call the adapter,
\* record the outcome.
CreateOne(stack, res, be, inProgress, complete, failedStatus) ==
    LET placeholder == [logicalResourceId |-> res.id, physicalResourceId |-> res.id,
                        resourceType |-> res.Type, resourceStatus |-> inProgress,
                        resourceStatusReason |-> NoReason]
        s1 == [stack EXCEPT !.resources = Append(@, placeholder)]
        s2 == addResourceEvent(s1, placeholder, inProgress, NoReason)
    IN CreateOutcome(s2, Len(stack.resources) + 1, res, createResource(s2, res, be),
                     complete, failedStatus)

----------------------------------------------------------------------------
(* State *)

VARIABLES
    stacks,      \* stacksByName: stack name -> StackRecord
    functions,   \* the function registry: name -> FunctionConfig
    groups,      \* the log ledger: group name -> streams
    buckets,     \* the object store: bucket name -> set of object keys
    tasks,       \* the stack operations of the run, each with its position and locals
    processEnv,  \* process.env: variable name -> value
    dirs,        \* the scratch directories that exist under runtimeRoot
    invs         \* the invokeFunction calls of the run, each with its position and locals

vars == <<stacks, functions, groups, buckets, tasks, processEnv, dirs, invs>>

\* what the stack orchestrator never touches
rtVars == <<processEnv, dirs, invs>>

TaskIds == 1..MaxTasks

InputStackNames == StackNames \cup {"1s"}

\* the names that match the pattern: those of the stacks and one more
ValidStackNames == StackNames \cup {"s2"}

\* validateStackName: /^[a-zA-Z][a-zA-Z0-9-]*$/, at most 128 characters
validateStackName(name) == name \in ValidStackNames

\* no resource record
NoResource ==
    [logicalResourceId |-> "", physicalResourceId |-> "", resourceType |-> "",
     resourceStatus |-> "", resourceStatusReason |-> NoReason]

\* no adapter call awaited
NoOutcome == [ok |-> TRUE, err |-> Err("", "", ""), physicalResourceId |-> ""]

IdleTask ==
    [op |-> "none", stack |-> "", pc |-> "idle", todo |-> <<>>,
     \* the resource record the operation holds across an await: its index in
     \* stack.resources, or 0 and the record itself once the list was replaced
     slot |-> 0, held |-> NoResource,
     \* the settled promise of the adapter call being awaited
     outcome |-> NoOutcome,
     \* the place of the operation's continuation in the microtask queue, 0 if none
     turn |-> 0,
     nextBody |-> TEmpty, previousBody |-> TEmpty,
     reason |-> NoReason, calls |-> <<>>, result |-> "none",
     \* the stack's resources and creation order when the operation started
     startResources |-> <<>>, startOrder |-> <<>>]

BE == [functions |-> functions, groups |-> groups, buckets |-> buckets]

SetBE(be) ==
    /\ functions' = be.functions
    /\ groups' = be.groups
    /\ buckets' = be.buckets

\* an adapter call as the task's history records it
Call(kind, logicalId, ok, err) == [kind |-> kind, id |-> logicalId, ok |-> ok, code |-> err.code]

InFlight(t) == tasks[t].pc \notin {"idle", "done"}

\* operations on a stack are serialised: a request starts when the previous
\* one has returned
CanStart(t) ==
    /\ tasks[t].pc = "idle"
    /\ \A u \in TaskIds : u < t => tasks[u].pc = "done"

Quiescent == \A t \in TaskIds : ~InFlight(t)

TemplateAccepted(body) ==
    /\ parseTemplate(body).ok
    /\ validateTemplate(parseTemplate(body))
    /\ ~computeCreationOrder(parseTemplate(body).Resources).error

StacksInit ==
    /\ stacks = EmptyMap
    /\ functions = EmptyMap
    /\ groups = EmptyMap
    /\ buckets = EmptyMap
    /\ tasks = [t \in TaskIds |-> IdleTask]

----------------------------------------------------------------------------
(* createStack *)

\* createStack throws a validation error before anything is recorded
CreateStackReject(t, name, body) ==
    /\ CanStart(t)
    /\ \/ ~validateStackName(name)
       \/ name \in DOMAIN stacks
       \/ ~TemplateAccepted(body)
    /\ tasks' = [tasks EXCEPT ![t] = [IdleTask EXCEPT !.op = "create", !.pc = "done", !.result = "threw"]]
    /\ UNCHANGED <<stacks, functions, groups, buckets>>
    /\ UNCHANGED rtVars

\* createStack up to the first adapter call: register the stack CREATE_IN_PROGRESS
CreateStackBegin(t, name, body) ==
    /\ CanStart(t)
    /\ validateStackName(name)
    /\ name \notin DOMAIN stacks
    /\ TemplateAccepted(body)
    /\ LET stack == [templateBody |-> body, stackStatus |-> "CREATE_IN_PROGRESS",
                     stackStatusReason |-> NoReason, resources |-> <<>>,
                     events |-> <<>>, creationOrder |-> <<>>]
       IN stacks' = MapPut(stacks, name, addStackEvent(stack, name, "CREATE_IN_PROGRESS", NoReason))
    /\ tasks' = [tasks EXCEPT ![t] = [IdleTask EXCEPT !.op = "create", !.stack = name,
                    !.nextBody = body, !.pc = "creating",
                    !.todo = computeCreationOrder(parseTemplate(body).Resources).order]]
    /\ UNCHANGED <<functions, groups, buckets>>
    /\ UNCHANGED rtVars

\* a creation loop that goes on after a failed resource
CreateStackStepNoReturn(t) ==
    /\ tasks[t].pc = "creating"
    /\ tasks[t].todo # <<>>
    /\ LET name == tasks[t].stack
           res == Lookup(parseTemplate(tasks[t].nextBody).Resources, Head(tasks[t].todo))
       IN \E r \in {CreateOne(stacks[name], res, BE, "CREATE_IN_PROGRESS", "CREATE_COMPLETE", "CREATE_FAILED")} :
          LET call == Call("create", res.id, r.ok, r.err)
          IN /\ SetBE(r.be)
             /\ stacks' = [stacks EXCEPT ![name] = r.stack]
             /\ tasks' = [tasks EXCEPT ![t].todo = Tail(@), ![t].calls = Append(@, call),
                                       ![t].reason = r.reason]
    /\ UNCHANGED rtVars

\* createStack: one iteration of the loop over the creation order
CreateStackStep(t) ==
    /\ tasks[t].pc = "creating"
    /\ tasks[t].todo # <<>>
    /\ LET name == tasks[t].stack
           res == Lookup(parseTemplate(tasks[t].nextBody).Resources, Head(tasks[t].todo))
       IN \E r \in {CreateOne(stacks[name], res, BE, "CREATE_IN_PROGRESS", "CREATE_COMPLETE", "CREATE_FAILED")} :
          LET call == Call("create", res.id, r.ok, r.err)
          IN /\ SetBE(r.be)
             /\ IF r.ok
                THEN /\ stacks' = [stacks EXCEPT ![name] = r.stack]
                     /\ tasks' = [tasks EXCEPT ![t].todo = Tail(@), ![t].calls = Append(@, call)]
                ELSE /\ stacks' = [stacks EXCEPT ![name] =
                           addStackEvent([r.stack EXCEPT !.stackStatus = "CREATE_FAILED",
                                                         !.stackStatusReason = r.reason],
                                         name, "CREATE_FAILED", r.reason)]
                     /\ tasks' = [tasks EXCEPT ![t].pc = "done", ![t].result = "returned",
                                               ![t].reason = r.reason,
                                               ![t].calls = Append(@, call)]
    /\ UNCHANGED rtVars

\* createStack: the loop is over, the stack is CREATE_COMPLETE
CreateStackComplete(t) ==
    /\ tasks[t].pc = "creating"
    /\ tasks[t].todo = <<>>
    /\ LET name == tasks[t].stack
       IN stacks' = [stacks EXCEPT ![name] =
            addStackEvent([@ EXCEPT !.stackStatus = "CREATE_COMPLETE"], name, "CREATE_COMPLETE", NoReason)]
    /\ tasks' = [tasks EXCEPT ![t].pc = "done", ![t].result = "returned"]
    /\ UNCHANGED <<functions, groups, buckets>>
    /\ UNCHANGED rtVars

----------------------------------------------------------------------------
(* deleteStack *)

\* deleteStack of a missing stack throws; of a DELETE_COMPLETE stack returns at once
DeleteStackNoop(t, name) ==
    /\ CanStart(t)
    /\ IF name \in DOMAIN stacks THEN stacks[name].stackStatus = "DELETE_COMPLETE" ELSE TRUE
    /\ tasks' = [tasks EXCEPT ![t] = [IdleTask EXCEPT !.op = "delete", !.stack = name, !.pc = "done",
                    !.result = IF name \in DOMAIN stacks THEN "returned" ELSE "threw"]]
    /\ UNCHANGED <<stacks, functions, groups, buckets>>
    /\ UNCHANGED rtVars

\* a deleteStack that walks creationOrder from its first element
DeleteStackBeginForward(t, name) ==
    /\ CanStart(t)
    /\ name \in DOMAIN stacks
    /\ stacks[name].stackStatus # "DELETE_COMPLETE"
    /\ stacks' = [stacks EXCEPT ![name] =
            addStackEvent([@ EXCEPT !.stackStatus = "DELETE_IN_PROGRESS"], name, "DELETE_IN_PROGRESS", NoReason)]
    /\ tasks' = [tasks EXCEPT ![t] = [IdleTask EXCEPT !.op = "delete", !.stack = name,
                    !.pc = "deleting", !.todo = stacks[name].creationOrder,
                    !.previousBody = stacks[name].templateBody,
                    !.startResources = stacks[name].resources,
                    !.startOrder = stacks[name].creationOrder]]
    /\ UNCHANGED <<functions, groups, buckets>>
    /\ UNCHANGED rtVars

\* deleteStack up to the first adapter call: DELETE_IN_PROGRESS, and the walk
\* is set to the reverse of creationOrder
DeleteStackBegin(t, name) ==
    /\ CanStart(t)
    /\ name \in DOMAIN stacks
    /\ stacks[name].stackStatus # "DELETE_COMPLETE"
    /\ stacks' = [stacks EXCEPT ![name] =
            addStackEvent([@ EXCEPT !.stackStatus = "DELETE_IN_PROGRESS"], name, "DELETE_IN_PROGRESS", NoReason)]
    /\ tasks' = [tasks EXCEPT ![t] = [IdleTask EXCEPT !.op = "delete", !.stack = name,
                    !.pc = "deleting", !.todo = Reverse(stacks[name].creationOrder),
                    !.previousBody = stacks[name].templateBody,
                    !.startResources = stacks[name].resources,
                    !.startOrder = stacks[name].creationOrder]]
    /\ UNCHANGED <<functions, groups, buckets>>
    /\ UNCHANGED rtVars

\* a deletion walk that goes on after a failed resource
DeleteStackStepNoReturn(t) ==
    /\ tasks[t].pc = "deleting"
    /\ tasks[t].todo # <<>>
    /\ LET name == tasks[t].stack
           lid == Head(tasks[t].todo)
           before == deleteResource(stacks[name].resources[FindResource(stacks[name], lid)], BE)
           r == DeleteOne(stacks[name], lid, BE)
           calls == IF FindResource(stacks[name], lid) = 0 THEN tasks[t].calls
                    ELSE Append(tasks[t].calls, Call("delete", lid, before.ok, before.err))
       IN /\ SetBE(r.be)
          /\ stacks' = [stacks EXCEPT ![name] = r.stack]
          /\ tasks' = [tasks EXCEPT ![t].todo = Tail(@), ![t].calls = calls,
                                    ![t].reason = r.failed]
    /\ UNCHANGED rtVars

\* deleteStack: one iteration of deleteResourcesByOrder; a failure ends the walk
DeleteStackStep(t) ==
    /\ tasks[t].pc = "deleting"
    /\ tasks[t].todo # <<>>
    /\ LET name == tasks[t].stack
           lid == Head(tasks[t].todo)
           before == deleteResource(stacks[name].resources[FindResource(stacks[name], lid)], BE)
           r == DeleteOne(stacks[name], lid, BE)
           calls == IF FindResource(stacks[name], lid) = 0 THEN tasks[t].calls
                    ELSE Append(tasks[t].calls, Call("delete", lid, before.ok, before.err))
       IN /\ SetBE(r.be)
          /\ IF r.failed = NoReason
             THEN /\ stacks' = [stacks EXCEPT ![name] = r.stack]
                  /\ tasks' = [tasks EXCEPT ![t].todo = Tail(@), ![t].calls = calls]
             ELSE /\ stacks' = [stacks EXCEPT ![name] =
                        addStackEvent([r.stack EXCEPT !.stackStatus = "DELETE_FAILED",
                                                      !.stackStatusReason = r.failed],
                                      name, "DELETE_FAILED", r.failed)]
                  /\ tasks' = [tasks EXCEPT ![t].pc = "done", ![t].result = "returned",
                                            ![t].reason = r.failed, ![t].calls = calls]
    /\ UNCHANGED rtVars

\* a deletion that ends by dropping the stack from the registry
DeleteStackCompleteRemoves(t) ==
    /\ tasks[t].pc = "deleting"
    /\ tasks[t].todo = <<>>
    /\ stacks' = MapDel(stacks, tasks[t].stack)
    /\ tasks' = [tasks EXCEPT ![t].pc = "done", ![t].result = "returned"]
    /\ UNCHANGED <<functions, groups, buckets>>
    /\ UNCHANGED rtVars

\* deleteStack: every deletion succeeded
DeleteStackComplete(t) ==
    /\ tasks[t].pc = "deleting"
    /\ tasks[t].todo = <<>>
    /\ LET name == tasks[t].stack
       IN stacks' = [stacks EXCEPT ![name] =
            addStackEvent([@ EXCEPT !.stackStatus = "DELETE_COMPLETE", !.stackStatusReason = NoReason],
                          name, "DELETE_COMPLETE", NoReason)]
    /\ tasks' = [tasks EXCEPT ![t].pc = "done", ![t].result = "returned"]
    /\ UNCHANGED <<functions, groups, buckets>>
    /\ UNCHANGED rtVars

----------------------------------------------------------------------------
(* updateStack *)

\* an updateStack that validates the new template after it has recorded
\* UPDATE_IN_PROGRESS
UpdateStackRejectLate(t, name, body) ==
    /\ CanStart(t)
    /\ name \notin DOMAIN stacks \/ ~TemplateAccepted(body)
    /\ IF name \in DOMAIN stacks
       THEN stacks' = [stacks EXCEPT ![name] =
                addStackEvent([@ EXCEPT !.stackStatus = "UPDATE_IN_PROGRESS", !.stackStatusReason = NoReason],
                              name, "UPDATE_IN_PROGRESS", NoReason)]
       ELSE stacks' = stacks
    /\ tasks' = [tasks EXCEPT ![t] = [IdleTask EXCEPT !.op = "update", !.pc = "done", !.result = "threw"]]
    /\ UNCHANGED <<functions, groups, buckets>>
    /\ UNCHANGED rtVars

\* updateStack throws before it touches the stack
UpdateStackReject(t, name, body) ==
    /\ CanStart(t)
    /\ name \notin DOMAIN stacks \/ ~TemplateAccepted(body)
    /\ tasks' = [tasks EXCEPT ![t] = [IdleTask EXCEPT !.op = "update", !.pc = "done", !.result = "threw"]]
    /\ UNCHANGED <<stacks, functions, groups, buckets>>
    /\ UNCHANGED rtVars

\* updateStack up to the first adapter call: no condition on the current status
UpdateStackBegin(t, name, body) ==
    /\ CanStart(t)
    /\ name \in DOMAIN stacks
    /\ TemplateAccepted(body)
    /\ stacks' = [stacks EXCEPT ![name] =
            addStackEvent([@ EXCEPT !.stackStatus = "UPDATE_IN_PROGRESS", !.stackStatusReason = NoReason],
                          name, "UPDATE_IN_PROGRESS", NoReason)]
    /\ tasks' = [tasks EXCEPT ![t] = [IdleTask EXCEPT !.op = "update", !.stack = name,
                    !.nextBody = body, !.previousBody = stacks[name].templateBody,
                    !.pc = "upd_deleting", !.todo = Reverse(stacks[name].creationOrder),
                    !.startResources = stacks[name].resources,
                    !.startOrder = stacks[name].creationOrder]]
    /\ UNCHANGED <<functions, groups, buckets>>
    /\ UNCHANGED rtVars

\* updateStack: one iteration of deleteResourcesByOrder over the current
\* resources; a failure ends the walk and the returned reason is dropped
UpdateDeleteStep(t) ==
    /\ tasks[t].pc = "upd_deleting"
    /\ tasks[t].todo # <<>>
    /\ LET name == tasks[t].stack
           lid == Head(tasks[t].todo)
           before == deleteResource(stacks[name].resources[FindResource(stacks[name], lid)], BE)
           r == DeleteOne(stacks[name], lid, BE)
           calls == IF FindResource(stacks[name], lid) = 0 THEN tasks[t].calls
                    ELSE Append(tasks[t].calls, Call("delete", lid, before.ok, before.err))
       IN /\ SetBE(r.be)
          /\ stacks' = [stacks EXCEPT ![name] = r.stack]
          /\ tasks' = [tasks EXCEPT ![t].todo = IF r.failed = NoReason THEN Tail(@) ELSE <<>>,
                                    ![t].calls = calls]
    /\ UNCHANGED rtVars

\* updateStack: the walk is over; forget the old resources, take the new template
UpdateReset(t) ==
    /\ tasks[t].pc = "upd_deleting"
    /\ tasks[t].todo = <<>>
    /\ LET name == tasks[t].stack
       IN stacks' = [stacks EXCEPT ![name].resources = <<>>,
                                   ![name].creationOrder = <<>>,
                                   ![name].templateBody = tasks[t].nextBody]
    /\ tasks' = [tasks EXCEPT ![t].pc = "upd_creating",
                    ![t].todo = computeCreationOrder(parseTemplate(tasks[t].nextBody).Resources).order]
    /\ UNCHANGED <<functions, groups, buckets>>
    /\ UNCHANGED rtVars

\* updateStack: one iteration of the loop over the new creation order
UpdateCreateStep(t) ==
    /\ tasks[t].pc = "upd_creating"
    /\ tasks[t].todo # <<>>
    /\ LET name == tasks[t].stack
           res == Lookup(parseTemplate(tasks[t].nextBody).Resources, Head(tasks[t].todo))
       IN \E r \in {CreateOne(stacks[name], res, BE, "UPDATE_IN_PROGRESS", "UPDATE_COMPLETE", "UPDATE_FAILED")} :
          LET call == Call("create", res.id, r.ok, r.err)
          IN /\ SetBE(r.be)
             /\ stacks' = [stacks EXCEPT ![name] = r.stack]
             /\ IF r.ok
                THEN tasks' = [tasks EXCEPT ![t].todo = Tail(@), ![t].calls = Append(@, call)]
                ELSE tasks' = [tasks EXCEPT ![t].pc = "upd_failing", ![t].reason = r.reason,
                                            ![t].calls = Append(@, call)]
    /\ UNCHANGED rtVars

UpdateComplete(t) ==
    /\ tasks[t].pc = "upd_creating"
    /\ tasks[t].todo = <<>>
    /\ LET name == tasks[t].stack
       IN stacks' = [stacks EXCEPT ![name] =
            addStackEvent([@ EXCEPT !.stackStatus = "UPDATE_COMPLETE", !.stackStatusReason = NoReason],
                          name, "UPDATE_COMPLETE", NoReason)]
    /\ tasks' = [tasks EXCEPT ![t].pc = "done", ![t].result = "returned"]
    /\ UNCHANGED <<functions, groups, buckets>>
    /\ UNCHANGED rtVars

\* updateStack, catch: the stack is UPDATE_FAILED
\* a failure path that goes to the rollback without recording UPDATE_FAILED
UpdateFailUnrecorded(t) ==
    /\ tasks[t].pc = "upd_failing"
    /\ tasks' = [tasks EXCEPT ![t].pc = "upd_failed"]
    /\ UNCHANGED <<stacks, functions, groups, buckets>>
    /\ UNCHANGED rtVars

UpdateFail(t) ==
    /\ tasks[t].pc = "upd_failing"
    /\ LET name == tasks[t].stack
       IN stacks' = [stacks EXCEPT ![name] =
            addStackEvent([@ EXCEPT !.stackStatus = "UPDATE_FAILED", !.stackStatusReason = tasks[t].reason],
                          name, "UPDATE_FAILED", tasks[t].reason)]
    /\ tasks' = [tasks EXCEPT ![t].pc = "upd_failed"]
    /\ UNCHANGED <<functions, groups, buckets>>
    /\ UNCHANGED rtVars

\* updateStack, catch: the rollback starts by deleting what the update created
RollbackBegin(t) ==
    /\ tasks[t].pc = "upd_failed"
    /\ LET name == tasks[t].stack
       IN /\ stacks' = [stacks EXCEPT ![name] =
                addStackEvent([@ EXCEPT !.stackStatus = "UPDATE_ROLLBACK_IN_PROGRESS"],
                              name, "UPDATE_ROLLBACK_IN_PROGRESS", tasks[t].reason)]
          /\ tasks' = [tasks EXCEPT ![t].pc = "rb_deleting",
                                    ![t].todo = Reverse(stacks[name].creationOrder)]
    /\ UNCHANGED <<functions, groups, buckets>>
    /\ UNCHANGED rtVars

RollbackDeleteStep(t) ==
    /\ tasks[t].pc = "rb_deleting"
    /\ tasks[t].todo # <<>>
    /\ LET name == tasks[t].stack
           lid == Head(tasks[t].todo)
           before == deleteResource(stacks[name].resources[FindResource(stacks[name], lid)], BE)
           r == DeleteOne(stacks[name], lid, BE)
           calls == IF FindResource(stacks[name], lid) = 0 THEN tasks[t].calls
                    ELSE Append(tasks[t].calls, Call("rb_delete", lid, before.ok, before.err))
       IN /\ SetBE(r.be)
          /\ stacks' = [stacks EXCEPT ![name] = r.stack]
          /\ tasks' = [tasks EXCEPT ![t].todo = IF r.failed = NoReason THEN Tail(@) ELSE <<>>,
                                    ![t].calls = calls]
    /\ UNCHANGED rtVars

\* a rollback that leaves the template body of the failed update in place
RollbackResetKeepsBody(t) ==
    /\ tasks[t].pc = "rb_deleting"
    /\ tasks[t].todo = <<>>
    /\ LET name == tasks[t].stack
       IN stacks' = [stacks EXCEPT ![name].resources = <<>>,
                                   ![name].creationOrder = <<>>]
    /\ tasks' = [tasks EXCEPT ![t].pc = "rb_creating",
                    ![t].todo = computeCreationOrder(parseTemplate(tasks[t].previousBody).Resources).order]
    /\ UNCHANGED <<functions, groups, buckets>>
    /\ UNCHANGED rtVars

\* rollback: restore the previous template body and start from no resources
\* (the copy of the previous resources assigned first is overwritten at once)
RollbackReset(t) ==
    /\ tasks[t].pc = "rb_deleting"
    /\ tasks[t].todo = <<>>
    /\ LET name == tasks[t].stack
       IN stacks' = [stacks EXCEPT ![name].resources = <<>>,
                                   ![name].creationOrder = <<>>,
                                   ![name].templateBody = tasks[t].previousBody]
    /\ tasks' = [tasks EXCEPT ![t].pc = "rb_creating",
                    ![t].todo = computeCreationOrder(parseTemplate(tasks[t].previousBody).Resources).order]
    /\ UNCHANGED <<functions, groups, buckets>>
    /\ UNCHANGED rtVars

\* rollback: re-create one resource of the previous template; a failure is
\* the rollbackError and ends the operation in UPDATE_ROLLBACK_FAILED
RollbackCreateStep(t) ==
    /\ tasks[t].pc = "rb_creating"
    /\ tasks[t].todo # <<>>
    /\ LET name == tasks[t].stack
           res == Lookup(parseTemplate(tasks[t].previousBody).Resources, Head(tasks[t].todo))
       IN \E r \in {CreateOne(stacks[name], res, BE, "CREATE_IN_PROGRESS", "CREATE_COMPLETE", "")} :
          LET call == Call("rb_create", res.id, r.ok, r.err)
          IN /\ SetBE(r.be)
             /\ IF r.ok
                THEN /\ stacks' = [stacks EXCEPT ![name] = r.stack]
                     /\ tasks' = [tasks EXCEPT ![t].todo = Tail(@), ![t].calls = Append(@, call)]
                ELSE /\ stacks' = [stacks EXCEPT ![name] =
                           addStackEvent([r.stack EXCEPT !.stackStatus = "UPDATE_ROLLBACK_FAILED",
                                                         !.stackStatusReason = r.reason],
                                         name, "UPDATE_ROLLBACK_FAILED", r.reason)]
                     /\ tasks' = [tasks EXCEPT ![t].pc = "done", ![t].result = "returned",
                                               ![t].calls = Append(@, call)]
    /\ UNCHANGED rtVars

\* a rollback that returns without recording its outcome
RollbackCompleteUnrecorded(t) ==
    /\ tasks[t].pc = "rb_creating"
    /\ tasks[t].todo = <<>>
    /\ tasks' = [tasks EXCEPT ![t].pc = "done", ![t].result = "returned"]
    /\ UNCHANGED <<stacks, functions, groups, buckets>>
    /\ UNCHANGED rtVars

\* rollback: every resource of the previous template is back
RollbackComplete(t) ==
    /\ tasks[t].pc = "rb_creating"
    /\ tasks[t].todo = <<>>
    /\ LET name == tasks[t].stack
       IN stacks' = [stacks EXCEPT ![name] =
            addStackEvent([@ EXCEPT !.stackStatus = "UPDATE_ROLLBACK_COMPLETE", !.stackStatusReason = NoReason],
                          name, "UPDATE_ROLLBACK_COMPLETE", NoReason)]
    /\ tasks' = [tasks EXCEPT ![t].pc = "done", ![t].result = "returned"]
    /\ UNCHANGED <<functions, groups, buckets>>
    /\ UNCHANGED rtVars

----------------------------------------------------------------------------
(* Direct calls on the backends, made by clients between stack operations *)

DirectDeleteFunction(name) ==
    /\ Quiescent
    /\ LET r == deleteFunction(functions, name) IN r.ok /\ functions' = r.functions
    /\ UNCHANGED <<stacks, groups, buckets, tasks>>
    /\ UNCHANGED rtVars

DirectDeleteLogGroup(name) ==
    /\ Quiescent
    /\ LET r == deleteLogGroup(groups, name) IN r.ok /\ groups' = r.groups
    /\ UNCHANGED <<stacks, functions, buckets, tasks>>
    /\ UNCHANGED rtVars

DirectDeleteBucket(name) ==
    /\ Quiescent
    /\ LET r == deleteBucket(buckets, name) IN r.ok /\ buckets' = r.buckets
    /\ UNCHANGED <<stacks, functions, groups, tasks>>
    /\ UNCHANGED rtVars

\* InMemoryS3Backend.putObject
DirectPutObject(name, key) ==
    /\ Quiescent
    /\ name \in DOMAIN buckets
    /\ buckets' = [buckets EXCEPT ![name] = @ \cup {key}]
    /\ UNCHANGED <<stacks, functions, groups, tasks>>
    /\ UNCHANGED rtVars

\* InMemoryS3Backend.deleteObject
DirectDeleteObject(name, key) ==
    /\ Quiescent
    /\ name \in DOMAIN buckets
    /\ key \in buckets[name]
    /\ buckets' = [buckets EXCEPT ![name] = @ \ {key}]
    /\ UNCHANGED <<stacks, functions, groups, tasks>>
    /\ UNCHANGED rtVars

----------------------------------------------------------------------------
(* The function runtime: values *)

EnvNames == {"X", "Y"}

\* a handler string is its sequence of characters
HandlerIH == <<"i", ".", "h">>      \* "i.h"
HandlerI == <<"i">>                  \* "i": no export part
HandlerDotH == <<".", "h">>          \* ".h": empty module part
HandlerMH == <<"m", ".", "h">>      \* "m.h": no such module in the bundle
HandlerIX == <<"i", ".", "x">>      \* "i.x": an export that is not a function

\* String.prototype.split("."): the segments between the dots
RECURSIVE SplitDot(_)
SplitDot(chars) ==
    IF chars = <<>> THEN << <<>> >>
    ELSE LET rest == SplitDot(Tail(chars))
         IN IF Head(chars) = "." THEN << <<>> >> \o rest
            ELSE << <<Head(chars)>> \o rest[1] >> \o Tail(rest)

\* array destructuring: the n-th element, undefined (here the empty string) if none
Part(parts, n) == IF Len(parts) >= n THEN parts[n] ELSE <<>>

\* Code bundles: whether the bytes are a ZIP archive, the files in it, whether
\* the handler module loads, and what it exports
BundleGood == [valid |-> TRUE, files |-> {<< <<"i">>, "mjs" >>}, loads |-> TRUE,
               functions |-> {<<"h">>}]
BundleJs == [valid |-> TRUE, files |-> {<< <<"i">>, "js" >>, << <<"i">>, "cjs" >>}, loads |-> TRUE,
             functions |-> {<<"h">>}]
BundleSyntaxError == [valid |-> TRUE, files |-> {<< <<"i">>, "mjs" >>}, loads |-> FALSE,
                      functions |-> {}]
BundleNotZip == [valid |-> FALSE, files |-> {}, loads |-> FALSE, functions |-> {}]

FnInput(name, handler, bundle, timeout, env) ==
    [FunctionName |-> name, Runtime |-> AcceptedRuntime, Handler |-> handler,
     Timeout |-> timeout, Environment |-> env, ZipFile |-> bundle]

EnvXY == [k \in {"X", "Y"} |-> IF k = "X" THEN "a" ELSE "b"]
EnvX == [k \in {"X"} |-> "c"]

\* the CreateFunction requests of the run
FunctionInputs(name) ==
    { FnInput(name, HandlerIH, BundleGood, <<1>>, EnvXY),
      FnInput(name, HandlerIH, BundleJs, <<>>, EnvX),
      FnInput(name, HandlerI, BundleGood, <<>>, EnvXY),
      FnInput(name, HandlerDotH, BundleGood, <<>>, EnvXY),
      FnInput(name, HandlerMH, BundleGood, <<>>, EnvXY),
      FnInput(name, HandlerIX, BundleGood, <<>>, EnvXY),
      FnInput(name, HandlerIH, BundleSyntaxError, <<>>, EnvXY),
      FnInput(name, HandlerIH, BundleNotZip, <<>>, EnvXY) }

\* request payloads: no bytes, JSON text, bytes that are not JSON
Payloads == {"", "{}", "{"}

\* JSON.parse(payload.toString("utf8"))
JsonParses(payload) == payload # "{"

\* JavaScript values a handler returns
ValUndefined == [t |-> "undefined", text |-> ""]
ValNull == [t |-> "null", text |-> ""]
ValObject == [t |-> "json", text |-> "{\"version\":1}"]
ValFunction == [t |-> "function", text |-> ""]
ValBigInt == [t |-> "bigint", text |-> ""]

\* values a handler throws or rejects with: name and message are "" / <<>>
\* when the property is undefined or empty
Thrown(kind, name, message) == [kind |-> kind, code |-> "", name |-> name, message |-> message]
ErrBoom == Thrown("Error", "Error", <<"boom">>)
ErrNoMessage == Thrown("Error", "Error", <<>>)
ErrCustom == Thrown("Error", "ValidationError", <<"bad">>)
ThrownString == Thrown("primitive", "", <<>>)
ThrownNull == Thrown("nullish", "", <<>>)

HttpError(code, text, arg) ==
    [kind |-> "HttpError", code |-> code, name |-> "Error", message |-> <<text, arg>>]

\* Number.prototype.toFixed(2) of a whole number of seconds
ToFixed2(seconds) == ToString(seconds) \o ".00"

\* class TimeoutError
TimeoutError(seconds) ==
    [kind |-> "TimeoutError", code |-> "", name |-> "TimeoutError",
     message |-> <<"Task timed out after ", ToFixed2(seconds), " seconds">>]

\* what the handler does once called
HandlerBehaviours ==
    { [mode |-> "settles", ok |-> TRUE, value |-> v, thrown |-> ErrBoom] :
            v \in {ValUndefined, ValNull, ValObject, ValFunction, ValBigInt} }
    \cup { [mode |-> "settles", ok |-> FALSE, value |-> ValUndefined, thrown |-> e] :
            e \in {ErrBoom, ErrNoMessage, ErrCustom, ThrownString, ThrownNull} }
    \cup { [mode |-> "throws", ok |-> FALSE, value |-> ValUndefined, thrown |-> ErrBoom],
           [mode |-> "hangs", ok |-> FALSE, value |-> ValUndefined, thrown |-> ErrBoom] }

\* JSON.stringify(value): text, undefined, or a TypeError
JsonStringify(value) ==
    IF value.t = "null" THEN [throws |-> FALSE, defined |-> TRUE, text |-> "null"]
    ELSE IF value.t = "json" THEN [throws |-> FALSE, defined |-> TRUE, text |-> value.text]
    ELSE IF value.t = "bigint" THEN [throws |-> TRUE, defined |-> FALSE, text |-> ""]
    ELSE [throws |-> FALSE, defined |-> FALSE, text |-> ""]

\* result ?? null
OrNull(value) == IF value.t \in {"undefined", "null"} THEN ValNull ELSE value

NoPayload == [text |-> "", errorType |-> "", errorMessage |-> <<>>]
NoError == Thrown("none", "", <<>>)

\* an InvokeResult, or the error invokeFunction rejects with
Returned(functionError, payload) ==
    [status |-> "returned", functionError |-> functionError, payload |-> payload, error |-> NoError]
Threw(error) ==
    [status |-> "threw", functionError |-> "", payload |-> NoPayload, error |-> error]
Pending == [status |-> "pending", functionError |-> "", payload |-> NoPayload, error |-> NoError]

\* JSON.stringify({ errorType, errorMessage })
FaultPayload(errorType, errorMessage) ==
    [text |-> "", errorType |-> errorType, errorMessage |-> errorMessage]

\* a catch block that reports an HttpError as a handler fault
catchBlockWrapsHttpError(error) ==
    IF error.kind = "TimeoutError"
    THEN Returned("Unhandled", FaultPayload(error.name, error.message))
    ELSE IF error.kind = "nullish"
    THEN Threw(Thrown("Error", "TypeError", <<"Cannot read properties of ", "null">>))
    ELSE Returned("Unhandled",
            FaultPayload(IF error.name = "" THEN "Error" ELSE error.name,
                         IF error.message = <<>> THEN <<"Unknown error">> ELSE error.message))

\* the catch block of invokeFunction
catchBlock(error) ==
    IF error.kind = "HttpError" THEN Threw(error)
    ELSE IF error.kind = "TimeoutError"
    THEN Returned("Unhandled", FaultPayload(error.name, error.message))
    ELSE IF error.kind = "nullish"
    THEN Threw(Thrown("Error", "TypeError", <<"Cannot read properties of ", "null">>))
    ELSE Returned("Unhandled",
            FaultPayload(IF error.name = "" THEN "Error" ELSE error.name,
                         IF error.message = <<>> THEN <<"Unknown error">> ELSE error.message))

\* the try block after the race: the handler's result is serialised
returnResult(value) ==
    LET json == JsonStringify(OrNull(value))
    IN IF json.throws
       THEN catchBlock(Thrown("Error", "TypeError", <<"Do not know how to serialize a BigInt">>))
       ELSE IF ~json.defined
       THEN catchBlock(Thrown("Error", "TypeError", <<"The first argument must be of type string">>))
       ELSE Returned("", [text |-> json.text, errorType |-> "", errorMessage |-> <<>>])

\* resolveHandlerFile: the first of {module}.mjs, .js, .cjs that exists, "" if none
resolveHandlerFile(files, moduleName) ==
    IF <<moduleName, "mjs">> \in files THEN "mjs"
    ELSE IF <<moduleName, "js">> \in files THEN "js"
    ELSE IF <<moduleName, "cjs">> \in files THEN "cjs"
    ELSE ""

\* the loop that installs fn.environment: process.env[key] = value
installEnv(env, environment) ==
    [k \in (DOMAIN env) \cup (DOMAIN environment) |->
        IF k \in DOMAIN environment THEN environment[k] ELSE env[k]]

\* previousEnv: for every key of fn.environment, the value before, <<>> for undefined
savePreviousEnv(env, environment) ==
    [k \in DOMAIN environment |-> IF k \in DOMAIN env THEN <<env[k]>> ELSE <<>>]

\* the finally block: delete the keys that were undefined, reset the others
\* a restoration that assigns undefined to a variable instead of deleting it
restoreEnvAssignsUndefined(env, previousEnv) ==
    [k \in (DOMAIN env) \cup (DOMAIN previousEnv) |->
        IF k \in DOMAIN previousEnv
        THEN IF previousEnv[k] = <<>> THEN "undefined" ELSE previousEnv[k][1]
        ELSE env[k]]

restoreEnv(env, previousEnv) ==
    [k \in ((DOMAIN env) \cup (DOMAIN previousEnv))
            \ {j \in DOMAIN previousEnv : previousEnv[j] = <<>>} |->
        IF k \in DOMAIN previousEnv THEN previousEnv[k][1] ELSE env[k]]

----------------------------------------------------------------------------
(* The function runtime: invokeFunction *)

InvIds == 1..MaxInvocations

NoFn == [functionName |-> "", runtime |-> "", handler |-> <<>>, timeout |-> 0,
         environment |-> EmptyMap, zipFile |-> BundleNotZip, version |-> 0]

IdleInv ==
    [pc |-> "idle", fn |-> NoFn, exportName |-> <<>>, previousEnv |-> EmptyMap,
     behaviour |-> "none", value |-> ValUndefined, thrown |-> NoError,
     result |-> Pending, path |-> "",
     \* the process environment when the call was made
     envBefore |-> EmptyMap,
     \* the URL passed to import() and the module the loader returned for it
     importUrl |-> <<>>, module |-> <<>>]

\* invokeFunction throws before its try block: nothing after the throw runs
ThrowEarly(inv, path, error, env) ==
    [inv EXCEPT !.pc = "done", !.path = path, !.result = Threw(error), !.envBefore = env]

\* invokeFunction from the call to its first await (the dynamic import).
\* Gives the invocation record, the process environment and the directories after it.
invokeSync(i, name, payload, registry, env, directories) ==
    IF name \notin DOMAIN registry
    THEN [inv |-> ThrowEarly(IdleInv, "not_found",
                    HttpError("ResourceNotFoundException", "Function not found: ", name), env),
          env |-> env, dirs |-> directories]
    ELSE
    LET fn == registry[name]
        parts == SplitDot(fn.handler)
        moduleName == Part(parts, 1)
        exportName == Part(parts, 2)
        called == [IdleInv EXCEPT !.fn = fn, !.exportName = exportName]
    IN
    IF moduleName = <<>> \/ exportName = <<>>
    THEN [inv |-> ThrowEarly(called, "bad_handler",
                    HttpError("InvalidParameterValueException", "Invalid handler format: ", name), env),
          env |-> env, dirs |-> directories]
    ELSE IF ~fn.zipFile.valid
    THEN [inv |-> ThrowEarly(called, "zip_error",
                    Thrown("Error", "Error", <<"Invalid or unsupported zip format">>), env),
          env |-> env, dirs |-> directories \cup {i}]
    ELSE IF resolveHandlerFile(fn.zipFile.files, moduleName) = ""
    THEN [inv |-> ThrowEarly(called, "no_handler_file",
                    HttpError("InvalidParameterValueException", "Handler module not found: ", name), env),
          env |-> env, dirs |-> directories \cup {i}]
    ELSE IF payload # "" /\ ~JsonParses(payload)
    THEN [inv |-> ThrowEarly(called, "bad_payload",
                    Thrown("Error", "SyntaxError", <<"Unexpected end of JSON input">>), env),
          env |-> env, dirs |-> directories \cup {i}]
    ELSE [inv |-> [called EXCEPT !.pc = "importing", !.envBefore = env,
                                 !.previousEnv = savePreviousEnv(env, fn.environment)],
          env |-> installEnv(env, fn.environment),
          dirs |-> directories \cup {i}]

\* The call of invokeFunction
InvokeBegin(i, name, payload) ==
    /\ invs[i].pc = "idle"
    /\ \A j \in InvIds : j < i => invs[j].pc # "idle"
    /\ LET r == invokeSync(i, name, payload, functions, processEnv, dirs)
       IN /\ invs' = [invs EXCEPT ![i] = r.inv]
          /\ processEnv' = r.env
          /\ dirs' = r.dirs
    /\ UNCHANGED <<stacks, functions, groups, buckets, tasks>>

\* The catch and finally blocks: the invocation settles with result
Settle(i, path, result, error) ==
    /\ invs' = [invs EXCEPT ![i].pc = "done", ![i].path = path, ![i].result = result,
                            ![i].thrown = error]
    /\ processEnv' = restoreEnv(processEnv, invs[i].previousEnv)
    /\ dirs' = dirs \ {i}

\* The import fails: the error is caught like a handler fault
ImportFails(i) ==
    /\ invs[i].pc = "importing"
    /\ ~invs[i].fn.zipFile.loads
    /\ LET error == Thrown("Error", "SyntaxError", <<"Unexpected token">>)
       IN Settle(i, "import_error", catchBlock(error), error)
    /\ UNCHANGED <<stacks, functions, groups, buckets, tasks>>

\* The module is loaded but the named export is not a function
ExportNotCallable(i) ==
    /\ invs[i].pc = "importing"
    /\ invs[i].fn.zipFile.loads
    /\ invs[i].exportName \notin invs[i].fn.zipFile.functions
    /\ LET error == HttpError("InvalidParameterValueException", "Handler export not found: ",
                              invs[i].fn.functionName)
       IN Settle(i, "not_callable", catchBlock(error), error)
    /\ UNCHANGED <<stacks, functions, groups, buckets, tasks>>

\* The module is loaded and the handler is called: it throws at once, or the
\* race between its promise and the timer starts
CallHandler(i, b) ==
    /\ invs[i].pc = "importing"
    /\ invs[i].fn.zipFile.loads
    /\ invs[i].exportName \in invs[i].fn.zipFile.functions
    /\ IF b.mode = "throws"
       THEN Settle(i, "fault", catchBlock(b.thrown), b.thrown)
       ELSE /\ invs' = [invs EXCEPT ![i].pc = "racing", ![i].behaviour = b.mode,
                                    ![i].value = IF b.ok THEN b.value ELSE ValUndefined,
                                    ![i].thrown = IF b.ok THEN NoError ELSE b.thrown]
            /\ UNCHANGED <<processEnv, dirs>>
    /\ UNCHANGED <<stacks, functions, groups, buckets, tasks>>

\* The handler's promise settles before the timer fires
HandlerSettles(i) ==
    /\ invs[i].pc = "racing"
    /\ invs[i].behaviour = "settles"
    /\ IF invs[i].thrown = NoError
       THEN Settle(i, "success", returnResult(invs[i].value), NoError)
       ELSE Settle(i, "fault", catchBlock(invs[i].thrown), invs[i].thrown)
    /\ UNCHANGED <<stacks, functions, groups, buckets, tasks>>

\* withTimeout: the timer of fn.timeout seconds fires first
TimerFires(i) ==
    /\ invs[i].pc = "racing"
    /\ LET error == TimeoutError(invs[i].fn.timeout)
       IN Settle(i, "timeout", catchBlock(error), error)
    /\ UNCHANGED <<stacks, functions, groups, buckets, tasks>>

\* Registry calls made while invocations run
RegistryCreate(name, input) ==
    /\ LET r == createFunction(functions, input) IN r.ok /\ functions' = r.functions
    /\ UNCHANGED <<stacks, groups, buckets, tasks, processEnv, dirs, invs>>

RegistryDelete(name) ==
    /\ LET r == deleteFunction(functions, name) IN r.ok /\ functions' = r.functions
    /\ UNCHANGED <<stacks, groups, buckets, tasks, processEnv, dirs, invs>>

----------------------------------------------------------------------------
(* Specifications *)

\* process.env when the server starts: X is set, Y is not
InitialEnv == [k \in {"X"} |-> "0"]

Init ==
    /\ StacksInit
    /\ processEnv = InitialEnv
    /\ dirs = {}
    /\ invs = [i \in InvIds |-> IdleInv]

\* The stack orchestrator and its backends, one stack operation at a time
Next ==
    \/ \E t \in TaskIds, name \in InputStackNames, body \in TemplateBodies :
          \/ CreateStackReject(t, name, body)
          \/ CreateStackBegin(t, name, body)
          \/ UpdateStackReject(t, name, body)
          \/ UpdateStackBegin(t, name, body)
    \/ \E t \in TaskIds, name \in InputStackNames :
          \/ DeleteStackNoop(t, name)
          \/ DeleteStackBegin(t, name)
    \/ \E t \in TaskIds :
          \/ CreateStackStep(t)
          \/ CreateStackComplete(t)
          \/ DeleteStackStep(t)
          \/ DeleteStackComplete(t)
          \/ UpdateDeleteStep(t)
          \/ UpdateReset(t)
          \/ UpdateCreateStep(t)
          \/ UpdateComplete(t)
          \/ UpdateFail(t)
          \/ RollbackBegin(t)
          \/ RollbackDeleteStep(t)
          \/ RollbackReset(t)
          \/ RollbackCreateStep(t)
          \/ RollbackComplete(t)
    \/ \E name \in FunctionNames : DirectDeleteFunction(name)
    \/ \E name \in GroupNames : DirectDeleteLogGroup(name)
    \/ \E name \in BucketNames : DirectDeleteBucket(name)
    \/ \E name \in BucketNames, key \in ObjectKeys :
          \/ DirectPutObject(name, key)
          \/ DirectDeleteObject(name, key)

Spec == Init /\ [][Next]_vars

\* The function runtime: concurrent invocations and registry calls
InvokeNext ==
    \/ \E i \in InvIds, name \in FunctionNames, payload \in Payloads : InvokeBegin(i, name, payload)
    \/ \E i \in InvIds :
          \/ ImportFails(i)
          \/ ExportNotCallable(i)
          \/ HandlerSettles(i)
          \/ TimerFires(i)
    \/ \E i \in InvIds, b \in HandlerBehaviours : CallHandler(i, b)
    \/ \E name \in FunctionNames : \E input \in FunctionInputs(name) : RegistryCreate(name, input)
    \/ \E name \in FunctionNames : RegistryDelete(name)

SpecInvoke == Init /\ [][InvokeNext]_vars

----------------------------------------------------------------------------
(* Properties of the stack orchestrator *)

TerminalStatuses ==
    {"CREATE_COMPLETE", "CREATE_FAILED", "UPDATE_COMPLETE", "UPDATE_ROLLBACK_COMPLETE",
     "UPDATE_ROLLBACK_FAILED", "DELETE_COMPLETE", "DELETE_FAILED"}

\* the edges of the documented state machine of the stack status
StatusEdges ==
    { <<"CREATE_IN_PROGRESS", "CREATE_COMPLETE">>, <<"CREATE_IN_PROGRESS", "CREATE_FAILED">>,
      <<"CREATE_COMPLETE", "UPDATE_IN_PROGRESS">>, <<"UPDATE_COMPLETE", "UPDATE_IN_PROGRESS">>,
      <<"UPDATE_ROLLBACK_COMPLETE", "UPDATE_IN_PROGRESS">>,
      <<"UPDATE_IN_PROGRESS", "UPDATE_COMPLETE">>, <<"UPDATE_IN_PROGRESS", "UPDATE_FAILED">>,
      <<"UPDATE_FAILED", "UPDATE_ROLLBACK_IN_PROGRESS">>,
      <<"UPDATE_ROLLBACK_IN_PROGRESS", "UPDATE_ROLLBACK_COMPLETE">>,
      <<"UPDATE_ROLLBACK_IN_PROGRESS", "UPDATE_ROLLBACK_FAILED">>,
      <<"DELETE_IN_PROGRESS", "DELETE_COMPLETE">>, <<"DELETE_IN_PROGRESS", "DELETE_FAILED">> }
    \cup { <<s, "DELETE_IN_PROGRESS">> : s \in TerminalStatuses }

\* C1: every change of a stack's status is an edge of the documented state
\* machine, and a new stack starts in CREATE_IN_PROGRESS.
C1_StatusFollowsStateMachine ==
    [][\A n \in StackNames :
          /\ (n \in DOMAIN stacks /\ stacks'[n].stackStatus # stacks[n].stackStatus)
                => <<stacks[n].stackStatus, stacks'[n].stackStatus>> \in StatusEdges
          /\ (n \notin DOMAIN stacks /\ n \in DOMAIN stacks')
                => stacks'[n].stackStatus = "CREATE_IN_PROGRESS"]_vars

\* the resources id depends on, directly or through other resources
RECURSIVE Reach(_, _, _)
Reach(resources, ids, n) ==
    IF n = 0 THEN ids
    ELSE Reach(resources,
               ids \cup UNION {Range(Lookup(resources, x).DependsOn) : x \in ids},
               n - 1)

TransitiveDependsOn(resources, id) ==
    Reach(resources, Range(Lookup(resources, id).DependsOn), Len(resources))

\* the adapter calls of one kind that task t made, in order
RECURSIVE CallsOfKind(_, _)
CallsOfKind(calls, kind) ==
    IF calls = <<>> THEN <<>>
    ELSE IF Head(calls).kind = kind THEN <<Head(calls)>> \o CallsOfKind(Tail(calls), kind)
    ELSE CallsOfKind(Tail(calls), kind)

\* C2: in createStack the create adapter is called for a resource only after
\* the create calls for everything it transitively DependsOn have completed,
\* and for no resource twice.
C2_CreatesInDependencyOrder ==
    \A t \in TaskIds :
        tasks[t].op = "create" /\ tasks[t].result # "threw" =>
            LET calls == tasks[t].calls
                resources == parseTemplate(tasks[t].nextBody).Resources
            IN /\ \A j, k \in 1..Len(calls) : calls[j].id = calls[k].id => j = k
               /\ \A k \in 1..Len(calls) :
                     \A d \in TransitiveDependsOn(resources, calls[k].id) :
                        \E j \in 1..(k-1) : calls[j].id = d /\ calls[j].ok

\* a createStack of the three-resource template has created all of it
C2_Witness ==
    \E t \in TaskIds :
        /\ tasks[t].op = "create" /\ tasks[t].pc = "done" /\ tasks[t].nextBody = TThree
        /\ Len(tasks[t].calls) = 3
        /\ \A k \in 1..3 : tasks[t].calls[k].ok

\* the stack-level events of a journal, newest first
RECURSIVE StackEvents(_)
StackEvents(events) ==
    IF events = <<>> THEN <<>>
    ELSE IF Head(events).resourceType = StackType
    THEN <<Head(events).resourceStatus>> \o StackEvents(Tail(events))
    ELSE StackEvents(Tail(events))

\* task t is the operation that ran last
IsLatest(t) == tasks[t].pc # "idle" /\ \A u \in TaskIds : u > t => tasks[u].pc = "idle"

IdsOf(calls) == [k \in 1..Len(calls) |-> calls[k].id]

IsPrefix(a, b) == Len(a) <= Len(b) /\ \A k \in 1..Len(a) : a[k] = b[k]

UpdateCreateFailed(t) ==
    /\ tasks[t].op = "update"
    /\ \E k \in 1..Len(tasks[t].calls) : tasks[t].calls[k].kind = "create" /\ ~tasks[t].calls[k].ok

\* C3: when creating a resource of the new template fails, the journal records
\* UPDATE_FAILED then UPDATE_ROLLBACK_IN_PROGRESS, the previous template is
\* re-created in its own creation order, and the update ends
\* UPDATE_ROLLBACK_COMPLETE if every re-creation succeeded, UPDATE_ROLLBACK_FAILED
\* if one failed.
C3_FailedUpdateRollsBack ==
    \A t \in TaskIds :
        UpdateCreateFailed(t) /\ tasks[t].pc = "done" /\ IsLatest(t) =>
            LET stack == stacks[tasks[t].stack]
                journal == StackEvents(stack.events)
                recreated == CallsOfKind(tasks[t].calls, "rb_create")
                order == computeCreationOrder(parseTemplate(tasks[t].previousBody).Resources).order
                allOk == \A k \in 1..Len(recreated) : recreated[k].ok
            IN /\ Len(journal) >= 4
               /\ journal[4] = "UPDATE_IN_PROGRESS"
               /\ journal[3] = "UPDATE_FAILED"
               /\ journal[2] = "UPDATE_ROLLBACK_IN_PROGRESS"
               /\ journal[1] = stack.stackStatus
               /\ IsPrefix(IdsOf(recreated), order)
               /\ allOk => Len(recreated) = Len(order) /\ stack.stackStatus = "UPDATE_ROLLBACK_COMPLETE"
               /\ ~allOk => ~recreated[Len(recreated)].ok /\ stack.stackStatus = "UPDATE_ROLLBACK_FAILED"

\* an update away from the three-resource template failed and rolled back
C3_Witness ==
    \E t \in TaskIds :
        /\ UpdateCreateFailed(t) /\ tasks[t].pc = "done" /\ IsLatest(t)
        /\ tasks[t].previousBody = TThree
        /\ Len(CallsOfKind(tasks[t].calls, "rb_create")) = 3
        /\ stacks[tasks[t].stack].stackStatus = "UPDATE_ROLLBACK_COMPLETE"

\* the object behind a resource record exists in its backend
Provisioned(resource, be) ==
    IF resource.resourceType = LambdaType THEN resource.physicalResourceId \in DOMAIN be.functions
    ELSE IF resource.resourceType = LogGroupType THEN resource.physicalResourceId \in DOMAIN be.groups
    ELSE IF resource.resourceType = BucketType THEN resource.physicalResourceId \in DOMAIN be.buckets
    ELSE FALSE

\* deleteStack run to its end from a given stack record and backends
RECURSIVE RunDelete(_, _, _)
RunDelete(stack, todo, be) ==
    IF todo = <<>>
    THEN [stack EXCEPT !.stackStatus = "DELETE_COMPLETE"]
    ELSE LET r == DeleteOne(stack, Head(todo), be)
         IN IF r.failed = NoReason THEN RunDelete(r.stack, Tail(todo), r.be)
            ELSE [r.stack EXCEPT !.stackStatus = "DELETE_FAILED"]

\* the final stack status and the final resource statuses of a deleteStack
DeleteOutcome(stack, be) ==
    LET end == RunDelete(stack, Reverse(stack.creationOrder), be)
    IN [stackStatus |-> end.stackStatus,
        resources |-> [k \in 1..Len(end.resources) |-> end.resources[k].resourceStatus]]

ToleratedNotFound(stack, call) ==
    /\ ~call.ok
    /\ call.code \in {"ResourceNotFoundException", "NoSuchBucket"}
    /\ isIgnorableDeleteError(stack.resources[FindResource(stack, call.id)].resourceType,
                              [code |-> call.code])

\* C4: a deleteStack that finds the object behind a resource already gone marks
\* that resource DELETE_COMPLETE and goes on with the walk, and the outcome of a
\* deleteStack (stack status and resource statuses) is the same whether or not
\* the object behind one of its resources was removed just before the call.
C4_TolerantDeletion ==
    /\ \A t \in TaskIds :
          tasks[t].op = "delete" /\ tasks[t].pc = "done" /\ IsLatest(t)
             /\ tasks[t].stack \in DOMAIN stacks =>
             LET stack == stacks[tasks[t].stack]
                 calls == tasks[t].calls
             IN \A k \in 1..Len(calls) :
                   ToleratedNotFound(stack, calls[k]) =>
                      /\ stack.resources[FindResource(stack, calls[k].id)].resourceStatus
                            = "DELETE_COMPLETE"
                      /\ k = Len(calls) => stack.stackStatus = "DELETE_COMPLETE"
    /\ \A n \in DOMAIN stacks :
          Quiescent /\ stacks[n].stackStatus # "DELETE_COMPLETE" =>
             \A k \in 1..Len(stacks[n].resources) :
                LET resource == stacks[n].resources[k]
                    gone == deleteResource(resource, BE)
                IN Provisioned(resource, BE) /\ gone.ok =>
                      DeleteOutcome(stacks[n], gone.be) = DeleteOutcome(stacks[n], BE)

\* a deleteStack found the bucket and the function of its stack gone and completed
C4_Witness ==
    \E t \in TaskIds :
        /\ tasks[t].op = "delete" /\ tasks[t].pc = "done" /\ IsLatest(t)
        /\ tasks[t].stack \in DOMAIN stacks
        /\ stacks[tasks[t].stack].stackStatus = "DELETE_COMPLETE"
        /\ \E j, k \in 1..Len(tasks[t].calls) :
              /\ ~tasks[t].calls[j].ok /\ tasks[t].calls[j].code = "NoSuchBucket"
              /\ ~tasks[t].calls[k].ok /\ tasks[t].calls[k].code = "ResourceNotFoundException"

LastCallFailed(t) ==
    /\ tasks[t].calls # <<>>
    /\ ~tasks[t].calls[Len(tasks[t].calls)].ok

\* the state createStack leaves when the adapter call of a resource failed
CreateFailureOutcome(t) ==
    LET stack == stacks[tasks[t].stack]
        calls == tasks[t].calls
        k == Len(calls)
        template == parseTemplate(tasks[t].nextBody)
        order == computeCreationOrder(template.Resources).order
        reason == tasks[t].reason
    IN /\ LastCallFailed(t)
       /\ tasks[t].result = "returned"
       /\ IdsOf(calls) = SubSeq(order, 1, k)
       /\ Len(stack.resources) = k
       /\ stack.resources[k].logicalResourceId = calls[k].id
       /\ stack.resources[k].resourceStatus = "CREATE_FAILED"
       /\ reason # NoReason
       /\ stack.resources[k].resourceStatusReason = reason
       /\ stack.stackStatus = "CREATE_FAILED"
       /\ stack.stackStatusReason = reason
       /\ Lookup(template.Resources, calls[k].id).Type \notin {LambdaType, LogGroupType, BucketType}
             => reason[1] = "Unsupported resource type: "
       /\ \A j \in 1..(k-1) :
             /\ stack.resources[j].resourceStatus = "CREATE_COMPLETE"
             /\ Provisioned(stack.resources[j], BE)

CreateEndedWithFailure(t) ==
    /\ tasks[t].op = "create" /\ tasks[t].pc = "done"
    /\ \E k \in 1..Len(tasks[t].calls) : ~tasks[t].calls[k].ok

\* C5: when the create adapter call of a resource fails, createStack returns
\* with that resource and the stack CREATE_FAILED with the error message as
\* reason, the resources created before still CREATE_COMPLETE and provisioned,
\* and nothing later in the creation order attempted or recorded.
C5_CreateFailureStopsWithoutRollback ==
    [][\A t \in TaskIds :
          tasks[t].pc # "done" /\ CreateEndedWithFailure(t)' => CreateFailureOutcome(t)']_vars

\* a createStack failed on an unsupported type after it had created a resource
C5_Witness ==
    \E t \in TaskIds :
        /\ CreateEndedWithFailure(t) /\ IsLatest(t)
        /\ Len(tasks[t].calls) = 2
        /\ tasks[t].reason # NoReason /\ tasks[t].reason[1] = "Unsupported resource type: "
        /\ stacks[tasks[t].stack].stackStatus = "CREATE_FAILED"
        /\ "g1" \in DOMAIN groups

\* the state deleteStack leaves when the deletion of a resource failed
DeleteFailureOutcome(t) ==
    LET stack == stacks[tasks[t].stack]
        calls == tasks[t].calls
        failed == stack.resources[FindResource(stack, calls[Len(calls)].id)]
        reason == tasks[t].reason
        earlier == Tail(tasks[t].todo)
    IN /\ LastCallFailed(t)
       /\ tasks[t].result = "returned"
       /\ failed.resourceStatus = "DELETE_FAILED"
       /\ reason # NoReason
       /\ failed.resourceStatusReason = reason
       /\ stack.stackStatus = "DELETE_FAILED"
       /\ stack.stackStatusReason = reason
       /\ \A j \in 1..Len(earlier) :
             /\ \A k \in 1..Len(calls) : calls[k].id # earlier[j]
             /\ FindResource(stack, earlier[j]) # 0 =>
                   stack.resources[FindResource(stack, earlier[j])]
                      = tasks[t].startResources[FindResource(stack, earlier[j])]

DeleteEndedWithFailure(t) ==
    /\ tasks[t].op = "delete" /\ tasks[t].pc = "done"
    /\ tasks[t].stack \in DOMAIN stacks
    /\ \E k \in 1..Len(tasks[t].calls) :
          ~tasks[t].calls[k].ok /\ ~ToleratedNotFound(stacks[tasks[t].stack], tasks[t].calls[k])

\* C6: when the deletion of a resource fails with an error that is not a
\* tolerated not-found, deleteStack returns without raising, the resource and
\* the stack are DELETE_FAILED with the reason, and the resources earlier in
\* creationOrder were not passed to the adapter, keep their record, and no
\* backend changed in the failing step.
C6_DeleteFailureStopsTheWalk ==
    [][\A t \in TaskIds :
          tasks[t].pc # "done" /\ DeleteEndedWithFailure(t)' =>
             /\ DeleteFailureOutcome(t)'
             /\ UNCHANGED <<functions, groups, buckets>>]_vars

\* a deleteStack deleted the function, failed on the non-empty bucket, and left the log group
C6_Witness ==
    \E t \in TaskIds :
        /\ DeleteEndedWithFailure(t) /\ IsLatest(t)
        /\ Len(tasks[t].calls) = 2
        /\ tasks[t].calls[2].code = "BucketNotEmpty"
        /\ Len(tasks[t].todo) = 2
        /\ stacks[tasks[t].stack].stackStatus = "DELETE_FAILED"
        /\ "g1" \in DOMAIN groups /\ "f1" \notin DOMAIN functions

----------------------------------------------------------------------------
(* Properties of the function runtime *)

\* the value has a JSON text
Serialisable(value) == value.t \in {"undefined", "null", "json"}

JsonOf(value) == IF value.t = "json" THEN value.text ELSE "null"

\* C7: an invocation of an existing function with a loadable handler gives the
\* JSON of the handler's value without functionError when the handler settles
\* with a value first, functionError "Unhandled" with {errorType, errorMessage}
\* (defaults "Error" / "Unknown error") when the handler throws or rejects first,
\* and functionError "Unhandled" with the TimeoutError payload when the timer
\* fires first.
C7_ThreeOutcomes ==
    \A i \in InvIds :
        invs[i].pc = "done" =>
            /\ invs[i].path = "success" /\ Serialisable(invs[i].value) =>
                  invs[i].result =
                     Returned("", [text |-> JsonOf(invs[i].value), errorType |-> "",
                                   errorMessage |-> <<>>])
            /\ invs[i].path = "fault" =>
                  invs[i].result =
                     Returned("Unhandled",
                        [text |-> "",
                         errorType |-> IF invs[i].thrown.name = "" THEN "Error"
                                       ELSE invs[i].thrown.name,
                         errorMessage |-> IF invs[i].thrown.message = <<>> THEN <<"Unknown error">>
                                          ELSE invs[i].thrown.message])
            /\ invs[i].path = "timeout" =>
                  invs[i].result =
                     Returned("Unhandled",
                        [text |-> "", errorType |-> "TimeoutError",
                         errorMessage |-> <<"Task timed out after ",
                                            ToFixed2(invs[i].fn.timeout), " seconds">>])

\* C8: a fault raised by the handler, whatever the value thrown, and a timeout
\* are returned as functionError "Unhandled" and never thrown by invokeFunction.
C8_FaultsNeverPropagate ==
    \A i \in InvIds :
        invs[i].pc = "done" /\ invs[i].path \in {"fault", "timeout"} =>
            /\ invs[i].result.status = "returned"
            /\ invs[i].result.functionError = "Unhandled"

\* C9: once an invocation has settled, on whatever path, its scratch directory
\* is gone.
C9_ScratchDirectoryRemoved ==
    \A i \in InvIds : invs[i].pc = "done" => i \notin dirs

\* the binding of a variable in an environment: <<value>>, or <<>> when absent
Binding(env, k) == IF k \in DOMAIN env THEN <<env[k]>> ELSE <<>>

\* C10: when an invocation settles, every variable named in its function's
\* environment has the binding it had when the call was made (its value, or
\* absent), and a step changes a variable of the process environment only for
\* an invocation whose function names it.
C10_EnvironmentRestored ==
    [][/\ \A i \in InvIds :
             invs[i].pc # "done" /\ invs'[i].pc = "done" =>
                \A k \in DOMAIN invs'[i].fn.environment :
                   Binding(processEnv', k) = Binding(invs'[i].envBefore, k)
       /\ \A k \in EnvNames :
             Binding(processEnv', k) # Binding(processEnv, k) =>
                \E i \in InvIds :
                   /\ invs'[i].pc # invs[i].pc
                   /\ k \in DOMAIN invs'[i].fn.environment]_vars

\* an invocation whose function sets X and Y returned after the handler ran, with
\* X back to its value and Y absent again
C10_Witness ==
    \E i \in InvIds :
        /\ invs[i].pc = "done" /\ invs[i].path \in {"success", "fault", "timeout"}
        /\ DOMAIN invs[i].fn.environment = {"X", "Y"}
        /\ Binding(invs[i].envBefore, "X") = <<"0">>
        /\ Binding(invs[i].envBefore, "Y") = <<>>
        /\ processEnv = invs[i].envBefore

\* C11: once all the invocations that ran concurrently have settled, the
\* process environment is what it was before the first of them started.
C11_ConcurrentInvocationsRestoreEnv ==
    (\A i \in InvIds : invs[i].pc \in {"idle", "done"}) => processEnv = InitialEnv

\* the condition invokeFunction detects before the handler is called
MissingFunction(i) == invs[i].fn = NoFn
MalformedHandler(i) ==
    /\ invs[i].fn # NoFn
    /\ \/ Part(SplitDot(invs[i].fn.handler), 1) = <<>>
       \/ Part(SplitDot(invs[i].fn.handler), 2) = <<>>
MissingHandlerFile(i) ==
    /\ invs[i].fn # NoFn /\ ~MalformedHandler(i)
    /\ invs[i].fn.zipFile.valid
    /\ \A ext \in {"mjs", "js", "cjs"} :
          <<Part(SplitDot(invs[i].fn.handler), 1), ext>> \notin invs[i].fn.zipFile.files
ExportIsNotCallable(i) ==
    /\ invs[i].fn # NoFn /\ ~MalformedHandler(i) /\ ~MissingHandlerFile(i)
    /\ invs[i].fn.zipFile.valid /\ invs[i].fn.zipFile.loads
    /\ Part(SplitDot(invs[i].fn.handler), 2) \notin invs[i].fn.zipFile.functions

----------------------------------------------------------------------------
(* The log ledger and the invocation log trail *)

\* stream.events.sort((left, right) => left.timestamp - right.timestamp): a stable sort
RECURSIVE InsertByTimestamp(_, _)
\* a sort that puts an event before the events of the same timestamp
InsertBeforeEqual(sorted, event) ==
    IF sorted = <<>> THEN <<event>>
    ELSE IF Head(sorted).timestamp < event.timestamp
    THEN <<Head(sorted)>> \o InsertByTimestamp(Tail(sorted), event)
    ELSE <<event>> \o sorted

InsertByTimestamp(sorted, event) ==
    IF sorted = <<>> THEN <<event>>
    ELSE IF Head(sorted).timestamp <= event.timestamp
    THEN <<Head(sorted)>> \o InsertByTimestamp(Tail(sorted), event)
    ELSE <<event>> \o sorted

RECURSIVE SortByTimestamp(_)
SortByTimestamp(events) ==
    IF events = <<>> THEN <<>>
    ELSE InsertByTimestamp(SortByTimestamp(SubSeq(events, 1, Len(events) - 1)),
                           events[Len(events)])

\* the number of bytes of the UTF-8 encoding of one code point
Utf8Width(codePoint) ==
    IF codePoint < 128 THEN 1
    ELSE IF codePoint < 2048 THEN 2
    ELSE IF codePoint < 65536 THEN 3
    ELSE 4

RECURSIVE Utf8Bytes(_)
Utf8Bytes(text) ==
    IF text = <<>> THEN 0 ELSE Utf8Width(Head(text)) + Utf8Bytes(Tail(text))

\* the number of UTF-16 code units of one code point
Utf16Width(codePoint) == IF codePoint < 65536 THEN 1 ELSE 2

RECURSIVE Utf16Units(_)
Utf16Units(text) ==
    IF text = <<>> THEN 0 ELSE Utf16Width(Head(text)) + Utf16Units(Tail(text))

\* message.length: a size in code units
byteLengthInCodeUnits(message) ==
    IF "kind" \in DOMAIN message
    THEN Len(message.kind) + 1 + Len(message.payload.text)
    ELSE Utf16Units(message.text)

\* Buffer.byteLength(message, "utf8").  A message given by its text is a
\* sequence of code points; a message of the invocation trail is ASCII, its
\* kind word, a space and the payload text.
byteLength(message) ==
    IF "kind" \in DOMAIN message
    THEN Len(message.kind) + 1 + Len(message.payload.text)
    ELSE Utf8Bytes(message.text)

\* events.reduce((sum, current) => sum + Buffer.byteLength(current.message, "utf8"), 0)
RECURSIVE SumMessageBytes(_)
SumMessageBytes(events) ==
    IF events = <<>> THEN 0
    ELSE byteLength(Head(events).message) + SumMessageBytes(Tail(events))

\* [...group.streams.values()].reduce((sum, current) => sum + current.details.storedBytes, 0)
RECURSIVE SumStoredBytes(_)
SumStoredBytes(streams) ==
    IF DOMAIN streams = {} THEN 0
    ELSE LET st == CHOOSE x \in DOMAIN streams : TRUE
         IN streams[st].storedBytes + SumStoredBytes(MapDel(streams, st))

\* InMemoryCloudWatchLogsBackend.putLogEvent: the group and the stream are
\* created when missing, the event is pushed, the stream sorted again, and the
\* storedBytes of the stream and of the group are computed again
putLogEvent(ledger, logGroupName, logStreamName, message, timestamp) ==
    LET group == IF logGroupName \in DOMAIN ledger THEN ledger[logGroupName]
                 ELSE [streams |-> EmptyMap, storedBytes |-> 0]
        events == IF logStreamName \in DOMAIN group.streams
                  THEN group.streams[logStreamName].events ELSE <<>>
        event == [timestamp |-> timestamp, message |-> message]
        sorted == SortByTimestamp(Append(events, event))
        streams == MapPut(group.streams, logStreamName,
                          [events |-> sorted, storedBytes |-> SumMessageBytes(sorted)])
    IN MapPut(ledger, logGroupName,
              [streams |-> streams, storedBytes |-> SumStoredBytes(streams)])

\* InMemoryCloudWatchLogsBackend.getLogEvents
getLogEvents(ledger, logGroupName, logStreamName) ==
    IF logGroupName \notin DOMAIN ledger
    THEN [ok |-> FALSE, events |-> <<>>]
    ELSE IF logStreamName \notin DOMAIN ledger[logGroupName].streams
    THEN [ok |-> FALSE, events |-> <<>>]
    ELSE [ok |-> TRUE,
          events |-> SortByTimestamp(ledger[logGroupName].streams[logStreamName].events)]

\* the messages of the log trail: "START RequestId: <id>", "RESULT <payload>",
\* "ERROR <payload>", "END RequestId: <id>"
Message(kind, requestId, payload) == [kind |-> kind, requestId |-> requestId, payload |-> payload]

\* `/aws/lambda/${record.functionName}`
LambdaLogGroup(functionName) == "/aws/lambda/" \o functionName

\* `${date}/[$LATEST]${record.requestId}`, date the UTC day of the timestamp
LambdaLogStream(timestamp, requestId) ==
    [date |-> timestamp \div 86400000, requestId |-> requestId]

\* an invocationLogger that gives END the timestamp of START
invocationLoggerSameInstant(ledger, record) ==
    LET g == LambdaLogGroup(record.functionName)
        st == LambdaLogStream(record.timestamp, record.requestId)
        l1 == putLogEvent(ledger, g, st, Message("START", record.requestId, NoPayload),
                          record.timestamp)
        l2 == putLogEvent(l1, g, st,
                          Message(IF record.functionError # "" THEN "ERROR" ELSE "RESULT",
                                  0, record.payload),
                          record.timestamp + 1)
    IN putLogEvent(l2, g, st, Message("END", record.requestId, NoPayload), record.timestamp)

\* the default sink of createMicrostackServer
invocationLogger(ledger, record) ==
    LET g == LambdaLogGroup(record.functionName)
        st == LambdaLogStream(record.timestamp, record.requestId)
        l1 == putLogEvent(ledger, g, st, Message("START", record.requestId, NoPayload),
                          record.timestamp)
        l2 == putLogEvent(l1, g, st,
                          Message(IF record.functionError # "" THEN "ERROR" ELSE "RESULT",
                                  0, record.payload),
                          record.timestamp + 1)
    IN putLogEvent(l2, g, st, Message("END", record.requestId, NoPayload), record.timestamp + 2)

\* the CreateFunction requests of the runs that are logged: a handler that
\* runs, a module that does not load, an export that is not a function
LoggedFunctionInputs(name) ==
    { FnInput(name, HandlerIH, BundleGood, <<1>>, EnvX),
      FnInput(name, HandlerIH, BundleSyntaxError, <<>>, EnvX),
      FnInput(name, HandlerIX, BundleGood, <<>>, EnvX) }

\* the instants at which invocations start (milliseconds)
StartTimes == {5, 6}

\* The invocation settles and, when it yields an InvokeResult, the runtime hands
\* the record of the invocation (request id i, started at ts) to the sink
SettleAndLog(i, path, result, error, ts) ==
    /\ Settle(i, path, result, error)
    /\ groups' = IF result.status = "returned"
                 THEN invocationLogger(groups,
                         [functionName |-> invs[i].fn.functionName, requestId |-> i,
                          timestamp |-> ts, payload |-> result.payload,
                          functionError |-> result.functionError])
                 ELSE groups
    /\ UNCHANGED <<stacks, functions, buckets, tasks>>

LoggedImportFails(i, ts) ==
    /\ invs[i].pc = "importing"
    /\ ~invs[i].fn.zipFile.loads
    /\ LET error == Thrown("Error", "SyntaxError", <<"Unexpected token">>)
       IN SettleAndLog(i, "import_error", catchBlock(error), error, ts)

LoggedExportNotCallable(i, ts) ==
    /\ invs[i].pc = "importing"
    /\ invs[i].fn.zipFile.loads
    /\ invs[i].exportName \notin invs[i].fn.zipFile.functions
    /\ LET error == HttpError("InvalidParameterValueException", "Handler export not found: ",
                              invs[i].fn.functionName)
       IN SettleAndLog(i, "not_callable", catchBlock(error), error, ts)

LoggedCallHandler(i, b, ts) ==
    /\ invs[i].pc = "importing"
    /\ invs[i].fn.zipFile.loads
    /\ invs[i].exportName \in invs[i].fn.zipFile.functions
    /\ IF b.mode = "throws"
       THEN SettleAndLog(i, "fault", catchBlock(b.thrown), b.thrown, ts)
       ELSE /\ invs' = [invs EXCEPT ![i].pc = "racing", ![i].behaviour = b.mode,
                                    ![i].value = IF b.ok THEN b.value ELSE ValUndefined,
                                    ![i].thrown = IF b.ok THEN NoError ELSE b.thrown]
            /\ UNCHANGED <<processEnv, dirs, stacks, functions, groups, buckets, tasks>>

LoggedHandlerSettles(i, ts) ==
    /\ invs[i].pc = "racing"
    /\ invs[i].behaviour = "settles"
    /\ IF invs[i].thrown = NoError
       THEN SettleAndLog(i, "success", returnResult(invs[i].value), NoError, ts)
       ELSE SettleAndLog(i, "fault", catchBlock(invs[i].thrown), invs[i].thrown, ts)

LoggedTimerFires(i, ts) ==
    /\ invs[i].pc = "racing"
    /\ LET error == TimeoutError(invs[i].fn.timeout)
       IN SettleAndLog(i, "timeout", catchBlock(error), error, ts)

\* The function runtime wired to the log ledger by createMicrostackServer
LogNext ==
    \/ \E i \in InvIds, name \in FunctionNames, payload \in Payloads : InvokeBegin(i, name, payload)
    \/ \E i \in InvIds, ts \in StartTimes :
          \/ LoggedImportFails(i, ts)
          \/ LoggedExportNotCallable(i, ts)
          \/ LoggedHandlerSettles(i, ts)
          \/ LoggedTimerFires(i, ts)
    \/ \E i \in InvIds, b \in HandlerBehaviours, ts \in StartTimes : LoggedCallHandler(i, b, ts)
    \/ \E name \in FunctionNames : \E input \in LoggedFunctionInputs(name) :
          RegistryCreate(name, input)
    \/ \E name \in FunctionNames : RegistryDelete(name)

SpecLogs == Init /\ [][LogNext]_vars

\* the three messages of the trail of invocation i, in order
Trail(i) ==
    << Message("START", i, NoPayload),
       Message(IF invs[i].result.functionError # "" THEN "ERROR" ELSE "RESULT", 0,
               invs[i].result.payload),
       Message("END", i, NoPayload) >>

\* the streams of a group whose name carries request id i
StreamsOf(ledger, logGroupName, i) ==
    IF logGroupName \notin DOMAIN ledger THEN {}
    ELSE {st \in DOMAIN ledger[logGroupName].streams : st.requestId = i}

TrailWritten(i) ==
    LET g == LambdaLogGroup(invs[i].fn.functionName)
        sts == StreamsOf(groups, g, i)
    IN /\ Cardinality(sts) = 1
       /\ \A st \in sts :
             LET got == getLogEvents(groups, g, st)
             IN /\ got.ok
                /\ [k \in 1..Len(got.events) |-> got.events[k].message] = Trail(i)

----------------------------------------------------------------------------
(* Code reload: updateFunctionCode and the module loader's cache *)

MaxVersion == 3

\* InMemoryLambdaBackend.updateFunctionCode
updateFunctionCode(registry, name, zipFile) ==
    IF name \notin DOMAIN registry
    THEN [ok |-> FALSE, functions |-> registry,
          err |-> Err("ResourceNotFoundException", "Function not found: ", name)]
    ELSE [ok |-> TRUE, err |-> Err("", "", ""),
          functions |-> [registry EXCEPT ![name].zipFile = zipFile,
                                         ![name].version = @ + 1]]

\* an import URL in one directory per function, whatever the invocation
importUrlSharedDir(i, fn, now) ==
    << [functionName |-> fn.functionName, version |-> 0, suffix |-> 0,
        extension |-> resolveHandlerFile(fn.zipFile.files, Part(SplitDot(fn.handler), 1)),
        v |-> now] >>

\* `${pathToFileURL(handlerPath).href}?v=${Date.now()}`: the handler file in the
\* directory mkdtempSync made for this invocation (prefix name-version-, a
\* suffix no other directory has), and the instant of the call
importUrl(i, fn, now) ==
    << [functionName |-> fn.functionName, version |-> fn.version, suffix |-> i,
        extension |-> resolveHandlerFile(fn.zipFile.files, Part(SplitDot(fn.handler), 1)),
        v |-> now] >>

\* await import(url): the loader evaluates a URL once and returns the module it
\* has for a URL it has seen
import(url, extracted, i) ==
    LET seen == {j \in InvIds : j # i /\ invs[j].module # <<>> /\ invs[j].importUrl = url}
    IN IF seen # {} THEN invs[CHOOSE j \in seen : TRUE].module ELSE <<extracted>>

\* the instants Date.now() returns
Instants == {10, 11}

ReloadBundles == {BundleGood, BundleJs, BundleSyntaxError}

ReloadFunctionInputs(name) ==
    { FnInput(name, HandlerIH, b, <<>>, EnvX) : b \in {BundleGood, BundleJs} }

UpdateCode(name, zipFile) ==
    /\ name \in DOMAIN functions
    /\ functions[name].version < MaxVersion
    /\ LET r == updateFunctionCode(functions, name, zipFile) IN r.ok /\ functions' = r.functions
    /\ UNCHANGED <<stacks, groups, buckets, tasks, processEnv, dirs, invs>>

\* invokeFunction up to await import, at instant now
InvokeBeginAt(i, name, now) ==
    /\ invs[i].pc = "idle"
    /\ \A j \in InvIds : j < i => invs[j].pc # "idle"
    /\ LET r == invokeSync(i, name, "", functions, processEnv, dirs)
       IN /\ invs' = [invs EXCEPT ![i] =
                IF r.inv.pc = "importing"
                THEN [r.inv EXCEPT !.importUrl = importUrl(i, r.inv.fn, now)]
                ELSE r.inv]
          /\ processEnv' = r.env
          /\ dirs' = r.dirs
    /\ UNCHANGED <<stacks, functions, groups, buckets, tasks>>

\* the import settles with a module
Import(i) ==
    /\ invs[i].pc = "importing"
    /\ invs' = [invs EXCEPT ![i].pc = "loaded",
                            ![i].module = import(invs[i].importUrl, invs[i].fn.zipFile, i)]
    /\ UNCHANGED <<stacks, functions, groups, buckets, tasks, processEnv, dirs>>

\* the rest of invokeFunction with the module the loader returned
RunModule(i) ==
    /\ invs[i].pc = "loaded"
    /\ LET module == invs[i].module[1]
       IN IF ~module.loads
          THEN LET error == Thrown("Error", "SyntaxError", <<"Unexpected token">>)
               IN Settle(i, "import_error", catchBlock(error), error)
          ELSE IF invs[i].exportName \notin module.functions
          THEN LET error == HttpError("InvalidParameterValueException",
                                      "Handler export not found: ", invs[i].fn.functionName)
               IN Settle(i, "not_callable", catchBlock(error), error)
          ELSE Settle(i, "success", returnResult(ValObject), NoError)
    /\ UNCHANGED <<stacks, functions, groups, buckets, tasks>>

ReloadNext ==
    \/ \E name \in FunctionNames : \E input \in ReloadFunctionInputs(name) :
          RegistryCreate(name, input)
    \/ \E name \in FunctionNames : RegistryDelete(name)
    \/ \E name \in FunctionNames, b \in ReloadBundles : UpdateCode(name, b)
    \/ \E i \in InvIds, name \in FunctionNames, now \in Instants : InvokeBeginAt(i, name, now)
    \/ \E i \in InvIds : Import(i) \/ RunModule(i)

SpecReload == Init /\ [][ReloadNext]_vars

\* C14: an invocation runs the bundle the registry holds for the function when
\* the invocation starts: the record it reads is the current one, and the module
\* the loader returns is the module of that record's bundle, never one loaded
\* from an earlier bundle.
C14_RunsCurrentBundle ==
    [][\A i \in InvIds :
          /\ invs[i].pc = "idle" /\ invs'[i].pc = "importing" =>
                /\ invs'[i].fn.functionName \in DOMAIN functions
                /\ invs'[i].fn = functions[invs'[i].fn.functionName]
          /\ invs[i].pc = "importing" /\ invs'[i].pc = "loaded" =>
                invs'[i].module = <<invs[i].fn.zipFile>>]_vars

\* two invocations made at the same instant, the second after updateFunctionCode,
\* each ran its own bundle
C14_Witness ==
    \E i, j \in InvIds :
        /\ i < j /\ invs[i].pc = "done" /\ invs[j].pc = "done"
        /\ invs[i].module # <<>> /\ invs[j].module # <<>>
        /\ invs[i].importUrl[1].v = invs[j].importUrl[1].v
        /\ invs[i].importUrl[1].extension = invs[j].importUrl[1].extension
        /\ invs[i].fn.version = 1 /\ invs[j].fn.version = 2
        /\ invs[i].module # invs[j].module
        /\ invs[j].module = <<invs[j].fn.zipFile>>

----------------------------------------------------------------------------
(* More properties of the stack orchestrator *)

\* C15: in a stack that is DELETE_COMPLETE every resource record is
\* DELETE_COMPLETE.
C15_DeletedStackHasOnlyDeletedResources ==
    \A n \in DOMAIN stacks :
        stacks[n].stackStatus = "DELETE_COMPLETE" =>
            \A k \in 1..Len(stacks[n].resources) :
                stacks[n].resources[k].resourceStatus = "DELETE_COMPLETE"

\* a deletion of a current resource failed in the first phase of updateStack
UpdateDeleteFailed(t) ==
    /\ tasks[t].op = "update"
    /\ \E k \in 1..Len(tasks[t].calls) :
          /\ tasks[t].calls[k].kind = "delete"
          /\ ~tasks[t].calls[k].ok
          /\ tasks[t].calls[k].code \notin {"ResourceNotFoundException", "NoSuchBucket"}

\* C16: an updateStack in which the deletion of a current resource failed with
\* an error that is not a tolerated not-found records UPDATE_FAILED and then
\* UPDATE_ROLLBACK_IN_PROGRESS, and does not end UPDATE_COMPLETE.
C16_FailedDeleteFailsTheUpdate ==
    \A t \in TaskIds :
        UpdateDeleteFailed(t) /\ tasks[t].pc = "done" /\ IsLatest(t) =>
            LET journal == StackEvents(stacks[tasks[t].stack].events)
            IN /\ stacks[tasks[t].stack].stackStatus
                     \in {"UPDATE_ROLLBACK_COMPLETE", "UPDATE_ROLLBACK_FAILED"}
               /\ Len(journal) >= 4
               /\ journal[3] = "UPDATE_FAILED"
               /\ journal[2] = "UPDATE_ROLLBACK_IN_PROGRESS"

\* C17: an updateStack that ends UPDATE_COMPLETE has called the delete adapter
\* for every current resource in reverse creationOrder before any create call,
\* has created every resource of the new template in its creation order, and
\* leaves every resource UPDATE_COMPLETE under the new template body.
C17_SuccessfulUpdateIsFullReplace ==
    \A t \in TaskIds :
        /\ tasks[t].op = "update" /\ tasks[t].pc = "done" /\ IsLatest(t)
        /\ tasks[t].stack \in DOMAIN stacks
        /\ stacks[tasks[t].stack].stackStatus = "UPDATE_COMPLETE"
        => LET stack == stacks[tasks[t].stack]
               calls == tasks[t].calls
               deletes == CallsOfKind(calls, "delete")
               creates == CallsOfKind(calls, "create")
           IN /\ IdsOf(deletes) = Reverse(tasks[t].startOrder)
              /\ \A j, k \in 1..Len(calls) :
                    calls[j].kind = "delete" /\ calls[k].kind = "create" => j < k
              /\ IdsOf(creates) = computeCreationOrder(parseTemplate(tasks[t].nextBody).Resources).order
              /\ \A k \in 1..Len(stack.resources) :
                    stack.resources[k].resourceStatus = "UPDATE_COMPLETE"
              /\ stack.templateBody = tasks[t].nextBody

\* describeStackEvents: a copy of the journal, newest first
describeStackEvents(registry, stackName) ==
    IF stackName \in DOMAIN registry THEN registry[stackName].events ELSE <<>>

IsSuffix(a, b) ==
    /\ Len(a) <= Len(b)
    /\ \A k \in 1..Len(a) : a[k] = b[Len(b) - Len(a) + k]

\* the statuses of the resource-level events of one logical id, newest first
RECURSIVE ResourceEvents(_, _)
ResourceEvents(events, logicalId) ==
    IF events = <<>> THEN <<>>
    ELSE IF Head(events).resourceType # StackType /\ Head(events).logicalResourceId = logicalId
    THEN <<Head(events).resourceStatus>> \o ResourceEvents(Tail(events), logicalId)
    ELSE ResourceEvents(Tail(events), logicalId)

\* the statuses an entity went through in one step, oldest first: `before' is
\* its status when the step began (<<>> when it did not exist), `added' the
\* statuses of the events the step put in the journal, newest first, `after'
\* its status when the step ended (<<>> when it no longer exists).  Every event
\* is one change, every change one event, and the newest event is the status.
OneEventPerChange(before, added, after) ==
    LET path == before \o Reverse(added)
    IN /\ \A k \in 1..(Len(path) - 1) : path[k] # path[k + 1]
       /\ added # <<>> => after = <<added[1]>>
       /\ added = <<>> /\ after # <<>> => after = before

StatusOf(stack, logicalId) ==
    IF FindResource(stack, logicalId) = 0 THEN <<>>
    ELSE <<stack.resources[FindResource(stack, logicalId)].resourceStatus>>

LogicalIds(stack) == {stack.resources[k].logicalResourceId : k \in 1..Len(stack.resources)}

\* C18: the journal of a stack only grows at the front: what
\* describeStackEvents returned before a step is a suffix of what it returns
\* after it, every change of the stack's status and of a resource's status
\* has put exactly one event with the new status in front, and nothing else
\* was added.
C18_JournalIsPrependOnly ==
    [][\A n \in DOMAIN stacks' :
          LET old == describeStackEvents(stacks, n)
              new == describeStackEvents(stacks', n)
              added == SubSeq(new, 1, Len(new) - Len(old))
          IN /\ IsSuffix(old, new)
             /\ OneEventPerChange(IF n \in DOMAIN stacks THEN <<stacks[n].stackStatus>> ELSE <<>>,
                                  StackEvents(added), <<stacks'[n].stackStatus>>)
             /\ \A lid \in LogicalIds(stacks'[n]) \cup {added[k].logicalResourceId : k \in 1..Len(added)} :
                   OneEventPerChange(IF n \in DOMAIN stacks THEN StatusOf(stacks[n], lid) ELSE <<>>,
                                     ResourceEvents(added, lid), StatusOf(stacks'[n], lid))
             /\ DOMAIN stacks \subseteq DOMAIN stacks']_vars

\* a journal with the stack-level events of two operations and resource-level
\* events between them
C18_Witness ==
    \E n \in DOMAIN stacks :
        /\ Len(StackEvents(stacks[n].events)) >= 4
        /\ Len(stacks[n].events) >= Len(StackEvents(stacks[n].events)) + 4
        /\ stacks[n].events[1].resourceType = StackType

----------------------------------------------------------------------------
(* Overlapping stack operations.  createStack, updateStack and deleteStack  *)
(* are async functions and the adapters they await settle without waiting   *)
(* for anything, so an operation runs from one await to the next as one     *)
(* microtask, the continuations run in the order of their awaits, and a     *)
(* caller that does not await one operation before it requests the next     *)
(* gets the two interleaved at the awaits.                                  *)

\* operations in flight together
MaxConcurrent == 2

RaceTemplates == {TBucket, TFunction, TThree, TTopic}

\* the object a task holds a reference to
Held(w, t) ==
    IF w.tasks[t].slot > 0 THEN w.stack.resources[w.tasks[t].slot] ELSE w.tasks[t].held

\* an assignment to fields of that object
SetHeld(w, t, obj) ==
    IF w.tasks[t].slot > 0
    THEN [w EXCEPT !.stack.resources[w.tasks[t].slot] = obj]
    ELSE [w EXCEPT !.tasks[t].held = obj]

\* stack.resources = []: the records in the old array stay with their holders
ResetResources(w) ==
    [w EXCEPT !.stack.resources = <<>>,
              !.tasks = [u \in TaskIds |->
                  IF w.tasks[u].slot > 0
                  THEN [w.tasks[u] EXCEPT !.slot = 0, !.held = w.stack.resources[w.tasks[u].slot]]
                  ELSE w.tasks[u]]]

\* the operation returns or throws
Return(w, t, result) ==
    [w EXCEPT !.tasks[t].pc = "done", !.tasks[t].result = result, !.tasks[t].todo = <<>>,
              !.tasks[t].slot = 0, !.tasks[t].held = NoResource, !.tasks[t].outcome = NoOutcome]

SetStackStatus(w, status, reason) ==
    [w EXCEPT !.stack = addStackEvent([w.stack EXCEPT !.stackStatus = status,
                                                     !.stackStatusReason = reason],
                                      w.name, status, reason)]

\* a creation loop up to its await: push the placeholder, call the adapter
beginCreateResource(w, t, res, inProgress) ==
    LET placeholder == [logicalResourceId |-> res.id, physicalResourceId |-> res.id,
                        resourceType |-> res.Type, resourceStatus |-> inProgress,
                        resourceStatusReason |-> NoReason]
        s1 == [w.stack EXCEPT !.resources = Append(@, placeholder)]
        s2 == addResourceEvent(s1, placeholder, inProgress, NoReason)
        r == createResource(s2, res, w.be)
    IN [w EXCEPT !.stack = s2, !.be = r.be,
                 !.tasks[t].slot = Len(s1.resources),
                 !.tasks[t].outcome = [ok |-> r.ok, err |-> r.err,
                                       physicalResourceId |-> r.physicalResourceId],
                 !.tasks[t].calls = Append(@, Call("create", res.id, r.ok, r.err))]

\* a creation loop after its await, the adapter call fulfilled
endCreateResource(w, t, complete) ==
    LET obj == [Held(w, t) EXCEPT !.physicalResourceId = w.tasks[t].outcome.physicalResourceId,
                                  !.resourceStatus = complete]
        w1 == SetHeld(w, t, obj)
    IN [w1 EXCEPT !.stack = [addResourceEvent(w1.stack, obj, complete, NoReason)
                                EXCEPT !.creationOrder = Append(@, Head(w.tasks[t].todo))],
                  !.tasks[t].todo = Tail(@)]

\* a creation loop after its await, the adapter call rejected
failCreateResource(w, t, failedStatus) ==
    LET reason == w.tasks[t].outcome.err.message
        obj == [Held(w, t) EXCEPT !.resourceStatus = failedStatus,
                                  !.resourceStatusReason = reason]
        w1 == SetHeld(w, t, obj)
    IN [w1 EXCEPT !.stack = addResourceEvent(w1.stack, obj, failedStatus, reason)]

\* deleteResourcesByOrder from the top of its loop to its next await, or to
\* its return when no id of the list is left
RECURSIVE enterDeleteLoop(_, _, _, _)
enterDeleteLoop(w, t, phase, logicalIds) ==
    IF logicalIds = <<>>
    THEN [w EXCEPT !.tasks[t].pc = phase \o ":walked", !.tasks[t].todo = <<>>,
                   !.tasks[t].reason = NoReason,
                   !.tasks[t].slot = 0, !.tasks[t].outcome = NoOutcome]
    ELSE LET i == FindResource(w.stack, Head(logicalIds)) IN
         IF i = 0 THEN enterDeleteLoop(w, t, phase, Tail(logicalIds))
         ELSE LET s1 == [w.stack EXCEPT !.resources[i].resourceStatus = "DELETE_IN_PROGRESS"]
                  s2 == addResourceEvent(s1, s1.resources[i], "DELETE_IN_PROGRESS", NoReason)
                  r == deleteResource(s2.resources[i], w.be)
              IN [w EXCEPT !.stack = s2, !.be = r.be,
                           !.tasks[t].pc = phase \o ":walking",
                           !.tasks[t].todo = Tail(logicalIds),
                           !.tasks[t].slot = i, !.tasks[t].held = NoResource,
                           !.tasks[t].outcome = [ok |-> r.ok, err |-> r.err, physicalResourceId |-> ""],
                           !.tasks[t].calls = Append(@, Call("delete", Head(logicalIds), r.ok, r.err))]

\* deleteResourcesByOrder after the await of deleteResource
resumeDeleteLoop(w, t, phase) ==
    LET resource == Held(w, t)
        o == w.tasks[t].outcome
    IN IF o.ok \/ isIgnorableDeleteError(resource.resourceType, o.err)
       THEN LET obj == [resource EXCEPT !.resourceStatus = "DELETE_COMPLETE",
                                        !.resourceStatusReason = NoReason]
                w1 == SetHeld(w, t, obj)
                w2 == [w1 EXCEPT !.stack = addResourceEvent(w1.stack, obj, "DELETE_COMPLETE", NoReason),
                                 !.tasks[t].held = NoResource]
            IN enterDeleteLoop(w2, t, phase, w.tasks[t].todo)
       ELSE LET obj == [resource EXCEPT !.resourceStatus = "DELETE_FAILED",
                                        !.resourceStatusReason = o.err.message]
                w1 == SetHeld(w, t, obj)
            IN [w1 EXCEPT !.stack = addResourceEvent(w1.stack, obj, "DELETE_FAILED", o.err.message),
                          !.tasks[t].pc = phase \o ":walked", !.tasks[t].todo = <<>>,
                          !.tasks[t].reason = o.err.message,
                          !.tasks[t].slot = 0, !.tasks[t].held = NoResource,
                          !.tasks[t].outcome = NoOutcome]

\* the three creation loops: createStack, updateStack and its rollback
LoopTemplate(task) == IF task.pc = "rb:creating" THEN task.previousBody ELSE task.nextBody

InProgressStatus(pc) == IF pc = "upd:creating" THEN "UPDATE_IN_PROGRESS" ELSE "CREATE_IN_PROGRESS"

CompleteStatus(pc) == IF pc = "upd:creating" THEN "UPDATE_COMPLETE" ELSE "CREATE_COMPLETE"

FinalStatus(pc) ==
    IF pc = "upd:creating" THEN "UPDATE_COMPLETE"
    ELSE IF pc = "rb:creating" THEN "UPDATE_ROLLBACK_COMPLETE" ELSE "CREATE_COMPLETE"

\* a creation loop from the top of an iteration: the next placeholder and
\* adapter call, or the final status when the order is exhausted
enterCreateLoop(w, t) ==
    LET task == w.tasks[t] IN
    IF task.todo = <<>>
    THEN Return(SetStackStatus(w, FinalStatus(task.pc), NoReason), t, "returned")
    ELSE beginCreateResource(w, t, Lookup(parseTemplate(LoopTemplate(task)).Resources, Head(task.todo)),
                             InProgressStatus(task.pc))

\* the microtask queue after task t ran: t goes to the end if it awaits again
Schedule(ts, t) ==
    LET ahead == Cardinality({u \in TaskIds \ {t} : ts[u].turn > 0})
        was == ts[t].turn
    IN [u \in TaskIds |->
          IF u = t THEN [ts[u] EXCEPT !.turn = IF ts[t].pc = "done" THEN 0 ELSE ahead + 1]
          ELSE IF was > 0 /\ ts[u].turn > was THEN [ts[u] EXCEPT !.turn = @ - 1]
          ELSE ts[u]]

World(name, stack) == [name |-> name, stack |-> stack, be |-> BE, tasks |-> tasks]

Commit(w, t) ==
    /\ stacks' = MapPut(stacks, w.name, w.stack)
    /\ SetBE(w.be)
    /\ tasks' = Schedule(w.tasks, t)
    /\ UNCHANGED rtVars

\* a caller may request an operation whenever fewer than MaxConcurrent are in flight
CanRequest(t) ==
    /\ tasks[t].pc = "idle"
    /\ \A u \in TaskIds : u < t => tasks[u].pc # "idle"
    /\ Cardinality({u \in TaskIds : InFlight(u)}) < MaxConcurrent

\* createStack, called while other operations may be awaiting: up to its first await
ConcurrentCreateStack(t, name, body) ==
    /\ CanRequest(t)
    /\ IF name \in DOMAIN stacks \/ ~validateStackName(name) \/ ~TemplateAccepted(body)
       THEN /\ tasks' = [tasks EXCEPT ![t] = [IdleTask EXCEPT !.op = "create", !.pc = "done",
                                                              !.result = "threw"]]
            /\ UNCHANGED <<stacks, functions, groups, buckets>>
            /\ UNCHANGED rtVars
       ELSE LET stack == [templateBody |-> body, stackStatus |-> "CREATE_IN_PROGRESS",
                          stackStatusReason |-> NoReason, resources |-> <<>>,
                          events |-> <<>>, creationOrder |-> <<>>]
                w == World(name, addStackEvent(stack, name, "CREATE_IN_PROGRESS", NoReason))
                w1 == [w EXCEPT !.tasks[t] = [IdleTask EXCEPT !.op = "create", !.stack = name,
                            !.nextBody = body, !.pc = "cr:creating",
                            !.todo = computeCreationOrder(parseTemplate(body).Resources).order]]
            IN Commit(enterCreateLoop(w1, t), t)

\* updateStack, called while other operations may be awaiting: up to its first await
ConcurrentUpdateStack(t, name, body) ==
    /\ CanRequest(t)
    /\ IF name \notin DOMAIN stacks \/ ~TemplateAccepted(body)
       THEN /\ tasks' = [tasks EXCEPT ![t] = [IdleTask EXCEPT !.op = "update", !.pc = "done",
                                                              !.result = "threw"]]
            /\ UNCHANGED <<stacks, functions, groups, buckets>>
            /\ UNCHANGED rtVars
       ELSE LET w == SetStackStatus(World(name, stacks[name]), "UPDATE_IN_PROGRESS", NoReason)
                w1 == [w EXCEPT !.tasks[t] = [IdleTask EXCEPT !.op = "update", !.stack = name,
                            !.nextBody = body, !.previousBody = stacks[name].templateBody,
                            !.startResources = stacks[name].resources,
                            !.startOrder = stacks[name].creationOrder]]
            IN Commit(enterDeleteLoop(w1, t, "upd", Reverse(stacks[name].creationOrder)), t)

\* deleteStack, called while other operations may be awaiting: up to its first await
ConcurrentDeleteStack(t, name) ==
    /\ CanRequest(t)
    /\ IF name \notin DOMAIN stacks \/ stacks[name].stackStatus = "DELETE_COMPLETE"
       THEN /\ tasks' = [tasks EXCEPT ![t] = [IdleTask EXCEPT !.op = "delete", !.pc = "done",
                            !.result = IF name \in DOMAIN stacks THEN "returned" ELSE "threw"]]
            /\ UNCHANGED <<stacks, functions, groups, buckets>>
            /\ UNCHANGED rtVars
       ELSE LET w == [World(name, stacks[name]) EXCEPT
                        !.stack = addStackEvent([@ EXCEPT !.stackStatus = "DELETE_IN_PROGRESS"],
                                                name, "DELETE_IN_PROGRESS", NoReason)]
                w1 == [w EXCEPT !.tasks[t] = [IdleTask EXCEPT !.op = "delete", !.stack = name,
                            !.startResources = stacks[name].resources]]
            IN Commit(enterDeleteLoop(w1, t, "del", Reverse(stacks[name].creationOrder)), t)

\* the continuation of an await of createResource, in any of the three loops
ResumeCreateLoop(t) ==
    /\ tasks[t].turn = 1
    /\ tasks[t].pc \in {"cr:creating", "upd:creating", "rb:creating"}
    /\ LET w == World(tasks[t].stack, stacks[tasks[t].stack])
           reason == tasks[t].outcome.err.message
       IN IF tasks[t].outcome.ok
          THEN Commit(enterCreateLoop(endCreateResource(w, t, CompleteStatus(tasks[t].pc)), t), t)
          ELSE IF tasks[t].pc = "cr:creating"
          THEN Commit(Return(SetStackStatus(failCreateResource(w, t, "CREATE_FAILED"),
                                            "CREATE_FAILED", reason), t, "returned"), t)
          ELSE IF tasks[t].pc = "upd:creating"
          THEN LET w1 == failCreateResource(w, t, "UPDATE_FAILED")
                   w2 == SetStackStatus(w1, "UPDATE_FAILED", reason)
                   w3 == [w2 EXCEPT !.stack = addStackEvent(
                                [w2.stack EXCEPT !.stackStatus = "UPDATE_ROLLBACK_IN_PROGRESS"],
                                w2.name, "UPDATE_ROLLBACK_IN_PROGRESS", reason)]
               IN Commit(enterDeleteLoop(w3, t, "rb", Reverse(w3.stack.creationOrder)), t)
          ELSE Commit(Return(SetStackStatus(w, "UPDATE_ROLLBACK_FAILED", reason), t, "returned"), t)

\* the continuation of the await of deleteResource in deleteResourcesByOrder
ResumeDeleteLoop(t) ==
    /\ tasks[t].turn = 1
    /\ \E phase \in {"upd", "rb", "del"} :
          /\ tasks[t].pc = phase \o ":walking"
          /\ Commit(resumeDeleteLoop(World(tasks[t].stack, stacks[tasks[t].stack]), t, phase), t)

\* the continuation of the await of deleteResourcesByOrder in its caller
ResumeAfterDeleteLoop(t) ==
    /\ tasks[t].turn = 1
    /\ LET w == World(tasks[t].stack, stacks[tasks[t].stack]) IN
       \/ /\ tasks[t].pc = "del:walked"
          /\ IF tasks[t].reason # NoReason
             THEN Commit(Return(SetStackStatus(w, "DELETE_FAILED", tasks[t].reason), t, "returned"), t)
             ELSE Commit(Return(SetStackStatus(w, "DELETE_COMPLETE", NoReason), t, "returned"), t)
       \/ /\ tasks[t].pc = "upd:walked"
          /\ LET w1 == ResetResources(w)
                 w2 == [w1 EXCEPT !.stack.creationOrder = <<>>,
                                  !.stack.templateBody = tasks[t].nextBody,
                                  !.tasks[t].pc = "upd:creating", !.tasks[t].reason = NoReason,
                                  !.tasks[t].todo =
                                      computeCreationOrder(parseTemplate(tasks[t].nextBody).Resources).order]
             IN Commit(enterCreateLoop(w2, t), t)
       \/ /\ tasks[t].pc = "rb:walked"
          /\ LET w1 == ResetResources(w)
                 w2 == [w1 EXCEPT !.stack.creationOrder = <<>>,
                                  !.stack.templateBody = tasks[t].previousBody,
                                  !.tasks[t].pc = "rb:creating", !.tasks[t].reason = NoReason,
                                  !.tasks[t].todo =
                                      computeCreationOrder(parseTemplate(tasks[t].previousBody).Resources).order]
             IN Commit(enterCreateLoop(w2, t), t)

RaceNext ==
    \/ \E t \in TaskIds, name \in StackNames, body \in RaceTemplates : ConcurrentCreateStack(t, name, body)
    \/ \E t \in TaskIds, name \in StackNames, body \in RaceTemplates : ConcurrentUpdateStack(t, name, body)
    \/ \E t \in TaskIds, name \in StackNames : ConcurrentDeleteStack(t, name)
    \/ \E t \in TaskIds : ResumeCreateLoop(t)
    \/ \E t \in TaskIds : ResumeDeleteLoop(t)
    \/ \E t \in TaskIds : ResumeAfterDeleteLoop(t)

SpecRace == Init /\ [][RaceNext]_vars

InProgressStatuses ==
    {"CREATE_IN_PROGRESS", "UPDATE_IN_PROGRESS", "UPDATE_FAILED",
     "UPDATE_ROLLBACK_IN_PROGRESS", "DELETE_IN_PROGRESS"}

\* the stack statuses with which an operation goes on from an interim status
OwnSuccessors(status) ==
    CASE status = "CREATE_IN_PROGRESS" -> {"CREATE_COMPLETE", "CREATE_FAILED"}
      [] status = "UPDATE_IN_PROGRESS" -> {"UPDATE_COMPLETE", "UPDATE_FAILED"}
      [] status = "UPDATE_FAILED" -> {"UPDATE_ROLLBACK_IN_PROGRESS"}
      [] status = "UPDATE_ROLLBACK_IN_PROGRESS" -> {"UPDATE_ROLLBACK_COMPLETE", "UPDATE_ROLLBACK_FAILED"}
      [] status = "DELETE_IN_PROGRESS" -> {"DELETE_COMPLETE", "DELETE_FAILED"}

\* C19: the operations on one stack do not interleave: in the journal of the
\* stack every interim status of an operation is followed by the next status
\* of the same operation, as in every sequential execution.
C19_OperationsDoNotInterleave ==
    \A n \in DOMAIN stacks :
        LET journal == Reverse(StackEvents(stacks[n].events))
        IN \A k \in 1..(Len(journal) - 1) :
              journal[k] \in InProgressStatuses => journal[k + 1] \in OwnSuccessors(journal[k])

\* C20: no logical resource id appears twice in the resources list of a stack.
C20_ResourceIdsAreUnique ==
    \A n \in DOMAIN stacks :
        \A j, k \in 1..Len(stacks[n].resources) :
            stacks[n].resources[j].logicalResourceId = stacks[n].resources[k].logicalResourceId
                => j = k

----------------------------------------------------------------------------
(* The creation order of a stack *)

\* every resource of the order comes after the resources it DependsOn, and
\* the order lists every resource once
IsTopologicalOrdering(order, resources) ==
    /\ Len(order) = Len(resources)
    /\ Range(order) = Ids(resources)
    /\ \A k \in 1..Len(order) :
          \A d \in Range(Lookup(resources, order[k]).DependsOn) :
             \E j \in 1..(k - 1) : order[j] = d

TopologicalOrderings(resources) ==
    {order \in [1..Len(resources) -> Ids(resources)] : IsTopologicalOrdering(order, resources)}

----------------------------------------------------------------------------
(* Rejected requests *)

\* the templates createStack is to reject: unparsable or without Resources,
\* an unknown or a missing required property on a supported type, a
\* DependsOn that names no resource, a DependsOn cycle
InvalidTemplate(body) ==
    \/ ~body.parses
    \/ \E i \in 1..Len(body.Resources) :
          LET resource == body.Resources[i]
          IN \/ /\ resource.Type \in {LambdaType, LogGroupType, BucketType}
                /\ resource.Unknown # {} \/ resource.Name = ""
             \/ ~(Range(resource.DependsOn) \subseteq Ids(body.Resources))
    \/ /\ \A i \in 1..Len(body.Resources) :
             Range(body.Resources[i].DependsOn) \subseteq Ids(body.Resources)
       /\ \E i \in 1..Len(body.Resources) :
             body.Resources[i].id \in TransitiveDependsOn(body.Resources, body.Resources[i].id)

\* C22: a createStack that rejects leaves the stacks and the backends as they
\* were and has called no adapter; and createStack does reject when the name
\* is invalid or in use or the template is one of the invalid ones.
C22_RejectedCreateChangesNothing ==
    [][\A t \in TaskIds :
          tasks[t].pc = "idle" /\ tasks'[t].op = "create" =>
             IF tasks'[t].result = "threw"
             THEN /\ stacks' = stacks
                  /\ functions' = functions /\ groups' = groups /\ buckets' = buckets
                  /\ tasks'[t].calls = <<>>
             ELSE /\ tasks'[t].stack \in StackNames
                  /\ tasks'[t].stack \notin DOMAIN stacks
                  /\ ~InvalidTemplate(tasks'[t].nextBody)]_vars

\* a createStack was rejected while a stack with resources existed
C22_Witness ==
    \E t \in TaskIds :
        /\ tasks[t].op = "create" /\ tasks[t].pc = "done" /\ tasks[t].result = "threw"
        /\ \E n \in DOMAIN stacks : stacks[n].resources # <<>> /\ stacks[n].events # <<>>

----------------------------------------------------------------------------
(* computeCreationOrder on its own: every mapping of up to MaxResources     *)
(* resources, in every key order, with every DependsOn among them           *)

MaxResources == 3

OrderIds == {<<"A", "B", "C", "D">>[i] : i \in 1..MaxResources}

\* the DependsOn lists over a set of ids: none, one id, or two in either order
DependsOnLists(ids) ==
    {<<>>} \cup {<<x>> : x \in ids} \cup {<<x, y>> : x \in ids, y \in ids}

OrderTemplates ==
    {[parses |-> TRUE,
      Resources |-> [i \in 1..MaxResources |-> Res(keys[i], LogGroupType, "g1", deps[keys[i]])]] :
        keys \in {k \in [1..MaxResources -> OrderIds] : \A i, j \in 1..MaxResources : k[i] = k[j] => i = j},
        deps \in {d \in [OrderIds -> DependsOnLists(OrderIds)] : \A x \in OrderIds : x \notin Range(d[x])}}

InitOrder ==
    /\ stacks = EmptyMap /\ functions = EmptyMap /\ groups = EmptyMap /\ buckets = EmptyMap
    /\ \E body \in OrderTemplates :
          tasks = [t \in TaskIds |-> IF t = 1 THEN [IdleTask EXCEPT !.nextBody = body] ELSE IdleTask]
    /\ processEnv = InitialEnv
    /\ dirs = {}
    /\ invs = [i \in InvIds |-> IdleInv]

\* const order = this.computeCreationOrder(template.Resources), after validateTemplate
ComputeOrder ==
    /\ tasks[1].pc = "idle"
    /\ validateTemplate(parseTemplate(tasks[1].nextBody))
    /\ LET r == computeCreationOrder(parseTemplate(tasks[1].nextBody).Resources)
       IN tasks' = [tasks EXCEPT ![1].op = "order", ![1].pc = "done",
                                 ![1].todo = IF r.error THEN <<>> ELSE r.order,
                                 ![1].result = IF r.error THEN "threw" ELSE "returned"]
    /\ UNCHANGED <<stacks, functions, groups, buckets>>
    /\ UNCHANGED rtVars

OrderNext == ComputeOrder

SpecOrder == InitOrder /\ [][OrderNext]_vars

\* the place of a logical id in a sequence of ids, 0 if it is not in it
IndexOf(seq, x) ==
    IF \E k \in 1..Len(seq) : seq[k] = x THEN CHOOSE k \in 1..Len(seq) : seq[k] = x ELSE 0

NoDependsOn(resources, x) == Lookup(resources, x).DependsOn = <<>>

Keys(resources) == [i \in 1..Len(resources) |-> resources[i].id]

----------------------------------------------------------------------------
(* Stacks whose functions refer to other resources of the stack *)

RefTemplates == {TRef, TRefEarly, TRefMissing, TRefSelf, TBucket}

RefNext ==
    \/ \E t \in TaskIds, name \in InputStackNames, body \in RefTemplates :
          \/ CreateStackReject(t, name, body)
          \/ CreateStackBegin(t, name, body)
          \/ UpdateStackReject(t, name, body)
          \/ UpdateStackBegin(t, name, body)
    \/ \E t \in TaskIds, name \in InputStackNames :
          \/ DeleteStackNoop(t, name)
          \/ DeleteStackBegin(t, name)
    \/ \E t \in TaskIds :
          \/ CreateStackStep(t)
          \/ CreateStackComplete(t)
          \/ DeleteStackStep(t)
          \/ DeleteStackComplete(t)
          \/ UpdateDeleteStep(t)
          \/ UpdateReset(t)
          \/ UpdateCreateStep(t)
          \/ UpdateComplete(t)
          \/ UpdateFail(t)
          \/ RollbackBegin(t)
          \/ RollbackDeleteStep(t)
          \/ RollbackReset(t)
          \/ RollbackCreateStep(t)
          \/ RollbackComplete(t)
    \/ \E name \in FunctionNames : DirectDeleteFunction(name)
    \/ \E name \in BucketNames : DirectDeleteBucket(name)

SpecRef == Init /\ [][RefNext]_vars

\* the records of a logical id that are CREATE_COMPLETE in a stack
CompleteRecords(stack, logicalId) ==
    {i \in 1..Len(stack.resources) :
        /\ stack.resources[i].logicalResourceId = logicalId
        /\ stack.resources[i].resourceStatus = "CREATE_COMPLETE"}

\* C24: when createStack comes to a resource whose properties hold { Ref: X }:
\* if X is CREATE_COMPLETE in the stack the reference resolves, and the object
\* created carries the physical id of X; otherwise the resource becomes
\* CREATE_FAILED with the resolution error and no object is created.
C24_RefResolvesToCompleteResource ==
    [][\A t \in TaskIds :
          /\ tasks[t].op = "create" /\ tasks[t].pc = "creating"
          /\ Len(tasks'[t].calls) = Len(tasks[t].calls) + 1
          => LET n == tasks[t].stack
                 call == tasks'[t].calls[Len(tasks'[t].calls)]
                 res == Lookup(parseTemplate(tasks[t].nextBody).Resources, call.id)
                 targets == CompleteRecords(stacks[n], res.Ref)
                 after == stacks'[n].resources[Len(stacks'[n].resources)]
             IN res.Ref # "" =>
                  IF targets # {}
                  THEN /\ call.code # "ValidationError"
                       /\ call.ok =>
                            /\ res.Name \in DOMAIN functions'
                            /\ \E i \in targets :
                                  functions'[res.Name].environment =
                                      [v \in {"TARGET"} |-> stacks[n].resources[i].physicalResourceId]
                            /\ after.resourceStatus = "CREATE_COMPLETE"
                  ELSE /\ ~call.ok /\ call.code = "ValidationError"
                       /\ after.logicalResourceId = call.id
                       /\ after.resourceStatus = "CREATE_FAILED"
                       /\ stacks'[n].stackStatus = "CREATE_FAILED"
                       /\ functions' = functions /\ groups' = groups /\ buckets' = buckets]_vars

\* a stack was created whose function carries the name of the stack's bucket
C24_Witness ==
    \E n \in DOMAIN stacks :
        /\ stacks[n].templateBody = TRef /\ stacks[n].stackStatus = "CREATE_COMPLETE"
        /\ "f1" \in DOMAIN functions
        /\ functions["f1"].environment = [v \in {"TARGET"} |-> "b1"]

----------------------------------------------------------------------------
(* The order of deletion *)

\* C25: the deletion adapters deleteStack calls are, in order, those of the
\* reverse of creationOrder, up to the first failure that is not tolerated
\* and all of them if there is none; no resource is passed to its adapter
\* after a resource it DependsOn, directly or not.
C25_DeletesInReverseCreationOrder ==
    \A t \in TaskIds :
        (tasks[t].op = "delete" /\ tasks[t].result # "threw") =>
            LET calls == tasks[t].calls
                reversed == Reverse(tasks[t].startOrder)
                resources == parseTemplate(tasks[t].previousBody).Resources
            IN /\ \A k \in 1..Len(calls) : calls[k].kind = "delete"
               /\ IsPrefix(IdsOf(calls), reversed)
               /\ \A k \in 1..(Len(calls) - 1) :
                     calls[k].ok \/ calls[k].code \in {"ResourceNotFoundException", "NoSuchBucket"}
               /\ (tasks[t].pc = "done" /\ ~LastCallFailed(t)) => IdsOf(calls) = reversed
               /\ \A k \in 1..Len(calls) :
                     \A d \in TransitiveDependsOn(resources, calls[k].id) :
                        \A j \in 1..k : calls[j].id # d

\* a deleteStack has deleted the three resources of a stack, dependents first
C25_Witness ==
    \E t \in TaskIds :
        /\ tasks[t].op = "delete" /\ tasks[t].pc = "done"
        /\ tasks[t].previousBody = TThree
        /\ IdsOf(tasks[t].calls) = <<"F", "B", "G">>
        /\ \A k \in 1..3 : tasks[t].calls[k].ok


\* a deleteStack on a stack that an earlier deleteStack left DELETE_FAILED
IsDeleteRetry(t) ==
    /\ tasks[t].op = "delete" /\ tasks[t].result = "returned"
    /\ \E k \in 1..Len(tasks[t].startResources) :
          tasks[t].startResources[k].resourceStatus = "DELETE_FAILED"

\* no bucket of the walk was found with objects in it
CauseRemoved(t) ==
    \A k \in 1..Len(tasks[t].calls) : tasks[t].calls[k].code # "BucketNotEmpty"

\* C26: a deleteStack on a stack left DELETE_FAILED, run when no bucket of the
\* stack holds an object any more, calls the adapter of every resource of
\* creationOrder again, takes the not-found answers of the resources already
\* deleted for deletions, and ends with the stack and these resources
\* DELETE_COMPLETE.
C26_RetriedDeleteCompletes ==
    \A t \in TaskIds :
        (IsDeleteRetry(t) /\ tasks[t].pc = "done" /\ IsLatest(t) /\ CauseRemoved(t)) =>
            LET stack == stacks[tasks[t].stack]
            IN /\ stack.stackStatus = "DELETE_COMPLETE"
               /\ IdsOf(tasks[t].calls) = Reverse(tasks[t].startOrder)
               /\ \A k \in 1..Len(stack.resources) :
                     stack.resources[k].logicalResourceId \in Range(tasks[t].startOrder)
                        => stack.resources[k].resourceStatus = "DELETE_COMPLETE"

\* the first deleteStack deleted the function and failed on the bucket; the
\* second one found the function absent and completed
C26_Witness ==
    \E u \in TaskIds, t \in TaskIds :
        /\ u < t /\ tasks[u].op = "delete" /\ tasks[u].stack = tasks[t].stack
        /\ tasks[u].pc = "done" /\ LastCallFailed(u) /\ Len(tasks[u].calls) > 1
        /\ IsDeleteRetry(t) /\ tasks[t].pc = "done" /\ IsLatest(t) /\ CauseRemoved(t)
        /\ \E k \in 1..Len(tasks[t].calls) : ~tasks[t].calls[k].ok
        /\ stacks[tasks[t].stack].stackStatus = "DELETE_COMPLETE"

----------------------------------------------------------------------------
(* The function registry: create, updateConfig, updateCode, delete *)

OtherRuntime == "python3.12"

\* the CreateFunction requests of the run: any Runtime, Timeout absent or any number
RegistryInputs(name) ==
    { [FnInput(name, h, b, t, EnvXY) EXCEPT !.Runtime = r] :
         h \in {HandlerIH, HandlerI}, b \in {BundleGood, BundleJs},
         t \in {<<>>, <<0>>, <<1>>, <<2>>}, r \in {AcceptedRuntime, OtherRuntime} }

\* the UpdateFunctionConfiguration requests of the run; <<>> is a field left out
ConfigurationInputs ==
    [Runtime : {<<>>, <<AcceptedRuntime>>, <<OtherRuntime>>},
     Handler : {<<>>, <<HandlerIH>>},
     Timeout : {<<>>, <<0>>, <<2>>},
     Environment : {<<>>, <<EnvX>>}]

\* a ?? b
Coalesce(a, b) == IF a = <<>> THEN b ELSE a[1]

\* a configuration update that counts as a new version
updateFunctionConfigurationNewVersion(registry, name, input) ==
    IF name \notin DOMAIN registry
    THEN [ok |-> FALSE, functions |-> registry,
          err |-> Err("ResourceNotFoundException", "Function not found: ", name)]
    ELSE [ok |-> TRUE, err |-> Err("", "", ""),
          functions |-> [registry EXCEPT
              ![name].runtime = Coalesce(input.Runtime, @),
              ![name].handler = Coalesce(input.Handler, @),
              ![name].timeout = Coalesce(input.Timeout, @),
              ![name].environment = Coalesce(input.Environment, @),
              ![name].version = @ + 1]]

\* InMemoryLambdaBackend.updateFunctionConfiguration
updateFunctionConfiguration(registry, name, input) ==
    IF name \notin DOMAIN registry
    THEN [ok |-> FALSE, functions |-> registry,
          err |-> Err("ResourceNotFoundException", "Function not found: ", name)]
    ELSE [ok |-> TRUE, err |-> Err("", "", ""),
          functions |-> [registry EXCEPT
              ![name].runtime = Coalesce(input.Runtime, @),
              ![name].handler = Coalesce(input.Handler, @),
              ![name].timeout = Coalesce(input.Timeout, @),
              ![name].environment = Coalesce(input.Environment, @)]]

UpdateConfiguration(name, input) ==
    /\ name \in DOMAIN functions
    /\ LET r == updateFunctionConfiguration(functions, name, input)
       IN r.ok /\ functions' = r.functions
    /\ UNCHANGED <<stacks, groups, buckets, tasks, processEnv, dirs, invs>>

RegistryNext ==
    \/ \E name \in FunctionNames : \E input \in RegistryInputs(name) : RegistryCreate(name, input)
    \/ \E name \in FunctionNames, input \in ConfigurationInputs : UpdateConfiguration(name, input)
    \/ \E name \in FunctionNames, b \in {BundleGood, BundleJs} : UpdateCode(name, b)
    \/ \E name \in FunctionNames : RegistryDelete(name)

SpecRegistry == Init /\ [][RegistryNext]_vars

\* C27: createFunction stores version 1, updateFunctionCode adds exactly 1,
\* updateFunctionConfiguration leaves the version as it is, and the version of
\* a record that stays in the registry never goes down.
C27_VersionCountsCodeUpdates ==
    [][\A name \in FunctionNames :
          /\ (\E input \in RegistryInputs(name) : RegistryCreate(name, input))
                => functions'[name].version = 1
          /\ (\E b \in {BundleGood, BundleJs} : UpdateCode(name, b))
                => functions'[name].version = functions[name].version + 1
          /\ (\E input \in ConfigurationInputs : UpdateConfiguration(name, input))
                => functions'[name].version = functions[name].version
          /\ (name \in DOMAIN functions /\ name \in DOMAIN functions')
                => functions'[name].version >= functions[name].version]_vars

\* a function whose code was updated twice and whose configuration was changed
C27_Witness ==
    \E name \in DOMAIN functions :
        /\ functions[name].version = 3
        /\ functions[name].environment = EnvX
        /\ functions[name].zipFile = BundleJs

\* C28: every function record of the registry has the accepted runtime
C28_RuntimeIsTheAcceptedOne ==
    \A name \in DOMAIN functions : functions[name].runtime = AcceptedRuntime

\* createFunction without Timeout stores 3
DefaultTimeoutIsThree ==
    [][\A name \in FunctionNames :
          \A input \in RegistryInputs(name) :
              (input.Timeout = <<>> /\ RegistryCreate(name, input))
                 => functions'[name].timeout = 3]_vars

\* C29: every function record has a timeout of at least one second
C29_TimeoutAtLeastOne ==
    \A name \in DOMAIN functions : functions[name].timeout >= 1

----------------------------------------------------------------------------
(* The log ledger: events appended with any timestamps *)

MaxEvents == 3
MaxTimestamp == 3

LedgerStreams == {"st1", "st2"}

\* the events of a stream, <<>> when the group or the stream is missing
EventsOf(ledger, logGroupName, logStreamName) ==
    IF logGroupName \notin DOMAIN ledger THEN <<>>
    ELSE IF logStreamName \notin DOMAIN ledger[logGroupName].streams THEN <<>>
    ELSE ledger[logGroupName].streams[logStreamName].events

\* putLogEvent with a timestamp of the caller's choice; the message is the
\* number of the append within its stream
AppendEvent(logGroupName, logStreamName, timestamp) ==
    /\ Len(EventsOf(groups, logGroupName, logStreamName)) < MaxEvents
    /\ groups' = putLogEvent(groups, logGroupName, logStreamName,
                             [n |-> Len(EventsOf(groups, logGroupName, logStreamName)) + 1,
                              text |-> <<>>],
                             timestamp)
    /\ UNCHANGED <<stacks, functions, buckets, tasks, processEnv, dirs, invs>>

LedgerNext ==
    \/ \E g \in GroupNames, st \in LedgerStreams, ts \in 1..MaxTimestamp : AppendEvent(g, st, ts)
    \/ \E g \in GroupNames : DirectDeleteLogGroup(g)

SpecLedger == Init /\ [][LedgerNext]_vars

\* ascending by timestamp, and by number of the append among equal timestamps
InAppendOrder(events) ==
    \A j, k \in 1..Len(events) :
        j < k => \/ events[j].timestamp < events[k].timestamp
                 \/ /\ events[j].timestamp = events[k].timestamp
                    /\ events[j].message.n < events[k].message.n

\* C30: every stream holds each appended event once, in ascending timestamp
\* order and, among equal timestamps, in the order of the appends; getLogEvents
\* returns the events in that order.
C30_StreamsSortedAndStable ==
    \A g \in DOMAIN groups : \A st \in DOMAIN groups[g].streams :
        LET events == groups[g].streams[st].events
        IN /\ InAppendOrder(events)
           /\ {events[k].message.n : k \in 1..Len(events)} = 1..Len(events)
           /\ getLogEvents(groups, g, st).ok
           /\ getLogEvents(groups, g, st).events = events

\* a stream that got a late event first, then two events of one earlier instant
C30_Witness ==
    \E g \in DOMAIN groups : \E st \in DOMAIN groups[g].streams :
        LET events == groups[g].streams[st].events
        IN /\ Len(events) = 3
           /\ events[1].timestamp = events[2].timestamp
           /\ events[1].message.n = 2 /\ events[2].message.n = 3 /\ events[3].message.n = 1

----------------------------------------------------------------------------
(* The log ledger: stored bytes *)

\* messages of 0 to 5 bytes: "", "A", "e" with acute accent, the euro sign
\* followed by "A", an emoji outside the basic plane
MessageTexts == {<<>>, <<65>>, <<233>>, <<8364, 65>>, <<128512>>}

\* putLogEvent without a timestamp: Date.now(), here the number of the append
AppendMessage(logGroupName, logStreamName, text) ==
    /\ Len(EventsOf(groups, logGroupName, logStreamName)) < MaxEvents
    /\ LET n == Len(EventsOf(groups, logGroupName, logStreamName)) + 1
       IN groups' = putLogEvent(groups, logGroupName, logStreamName, [n |-> n, text |-> text], n)
    /\ UNCHANGED <<stacks, functions, buckets, tasks, processEnv, dirs, invs>>

\* createLogGroup called directly
DirectCreateLogGroup(name) ==
    /\ LET r == createLogGroup(groups, name) IN r.ok /\ groups' = r.groups
    /\ UNCHANGED <<stacks, functions, buckets, tasks, processEnv, dirs, invs>>

BytesNext ==
    \/ \E g \in GroupNames, st \in LedgerStreams, text \in MessageTexts : AppendMessage(g, st, text)
    \/ \E g \in GroupNames : DirectCreateLogGroup(g)
    \/ \E g \in GroupNames : DirectDeleteLogGroup(g)

SpecBytes == Init /\ [][BytesNext]_vars

\* the UTF-8 bytes of the messages of a stream, counted from the code points
RECURSIVE BytesOfStream(_)
BytesOfStream(events) ==
    IF events = <<>> THEN 0
    ELSE Utf8Bytes(Head(events).message.text) + BytesOfStream(Tail(events))

\* the sum of the storedBytes of the streams named in a set
RECURSIVE BytesOfStreams(_, _)
BytesOfStreams(streams, names) ==
    IF names = {} THEN 0
    ELSE LET st == CHOOSE x \in names : TRUE
         IN streams[st].storedBytes + BytesOfStreams(streams, names \ {st})

\* C31: the storedBytes of every stream is the sum of the UTF-8 byte lengths of
\* the messages of its events, and the storedBytes of every group is the sum of
\* the storedBytes of its streams.
C31_StoredBytesAreSums ==
    \A g \in DOMAIN groups :
        /\ \A st \in DOMAIN groups[g].streams :
              groups[g].streams[st].storedBytes = BytesOfStream(groups[g].streams[st].events)
        /\ groups[g].storedBytes = BytesOfStreams(groups[g].streams, DOMAIN groups[g].streams)

\* two streams with messages of two, three and four bytes
C31_Witness ==
    \E g \in DOMAIN groups :
        /\ DOMAIN groups[g].streams = LedgerStreams
        /\ groups[g].streams["st1"].storedBytes = 6
        /\ groups[g].streams["st2"].storedBytes = 4
        /\ groups[g].storedBytes = 10

----------------------------------------------------------------------------
(* The object store: listObjectsV2 *)

\* Object keys, prefixes and tokens are strings given by their UTF-16 code
\* units: "a", "B", "b", "ab"
ListKeys == {<<97>>, <<66>>, <<98>>, <<97, 98>>}
ListPrefixes == {<<>>, <<97>>}
\* a continuation token: <<>> when the request has none, else <<token>>
ListTokens == {<<>>, << <<>> >>} \cup {<<k>> : k \in ListKeys}
\* max-keys: <<>> when the request has none, else <<number>>
ListMaxKeys == {<<>>, <<-1>>, <<0>>, <<1>>, <<2>>}

MaxPages == 4

\* key.startsWith(prefix)
startsWith(key, prefix) ==
    Len(prefix) <= Len(key) /\ \A i \in 1..Len(prefix) : key[i] = prefix[i]

\* left > right on strings: the order of the code units
RECURSIVE GreaterThan(_, _)
GreaterThan(left, right) ==
    IF left = <<>> THEN FALSE
    ELSE IF right = <<>> THEN TRUE
    ELSE IF Head(left) # Head(right) THEN Head(left) > Head(right)
    ELSE GreaterThan(Tail(left), Tail(right))

\* the collation weights of an ASCII letter: the letter whatever its case,
\* then lower case before upper case
PrimaryWeight(unit) == IF unit \in 65..90 THEN unit + 32 ELSE unit
TertiaryWeight(unit) == IF unit \in 65..90 THEN 1 ELSE 0

\* -1, 0 or 1 by the first place where the weights differ, a prefix first
RECURSIVE CompareWeights(_, _, _)
CompareWeights(left, right, primary) ==
    IF left = <<>> /\ right = <<>> THEN 0
    ELSE IF left = <<>> THEN -1
    ELSE IF right = <<>> THEN 1
    ELSE LET l == IF primary THEN PrimaryWeight(Head(left)) ELSE TertiaryWeight(Head(left))
             r == IF primary THEN PrimaryWeight(Head(right)) ELSE TertiaryWeight(Head(right))
         IN IF l < r THEN -1
            ELSE IF l > r THEN 1
            ELSE CompareWeights(Tail(left), Tail(right), primary)

\* left.localeCompare(right): the letters first, the case to break a tie
localeCompare(left, right) ==
    IF CompareWeights(left, right, TRUE) # 0
    THEN CompareWeights(left, right, TRUE)
    ELSE CompareWeights(left, right, FALSE)

\* [...].sort((left, right) => left.localeCompare(right)) of distinct keys
RECURSIVE SortKeys(_)
SortKeys(keys) ==
    IF keys = {} THEN <<>>
    ELSE LET first == CHOOSE x \in keys : \A y \in keys : localeCompare(x, y) <= 0
         IN <<first>> \o SortKeys(keys \ {first})

\* keys.findIndex((key) => key > continuationToken), 0-based, -1 if none
findIndex(keys, continuationToken) ==
    LET found == {i \in 1..Len(keys) : GreaterThan(keys[i], continuationToken)}
    IN IF found = {} THEN -1 ELSE (CHOOSE i \in found : \A j \in found : i <= j) - 1

\* keys.slice(start, end), 0-based, end excluded
slice(keys, start, end) ==
    LET last == IF end < Len(keys) THEN end ELSE Len(keys)
    IN IF start >= last THEN <<>> ELSE SubSeq(keys, start + 1, last)

\* parseMaxKeys
parseMaxKeys(value) ==
    IF value = <<>> THEN [ok |-> TRUE, value |-> 1000]
    ELSE IF value[1] < 0 THEN [ok |-> FALSE, value |-> 0]
    ELSE [ok |-> TRUE, value |-> value[1]]

NoListing ==
    [ok |-> FALSE, code |-> "", keys |-> <<>>, keyCount |-> 0, maxKeys |-> 0,
     isTruncated |-> FALSE, nextContinuationToken |-> <<>>]

\* InMemoryS3Backend.listObjectsV2
listObjectsV2(store, bucketName, input) ==
    IF bucketName \notin DOMAIN store THEN [NoListing EXCEPT !.code = "NoSuchBucket"]
    ELSE IF ~parseMaxKeys(input.maxKeys).ok THEN [NoListing EXCEPT !.code = "InvalidArgument"]
    ELSE
    LET maxKeys == parseMaxKeys(input.maxKeys).value
        keys == SortKeys({key \in store[bucketName] : startsWith(key, input.prefix)})
        hasToken == input.continuationToken # <<>> /\ input.continuationToken[1] # <<>>
        found == IF hasToken THEN findIndex(keys, input.continuationToken[1]) ELSE 0
        startIndex == IF found = -1 THEN Len(keys) ELSE found
        selectedKeys == slice(keys, startIndex, startIndex + maxKeys)
        isTruncated == startIndex + Len(selectedKeys) < Len(keys)
    IN [ok |-> TRUE, code |-> "", keys |-> selectedKeys, keyCount |-> Len(selectedKeys),
        maxKeys |-> maxKeys, isTruncated |-> isTruncated,
        nextContinuationToken |->
            IF isTruncated /\ selectedKeys # <<>> THEN <<selectedKeys[Len(selectedKeys)]>>
            ELSE <<>>]

\* a bucket holding any of the keys
InitList ==
    /\ stacks = EmptyMap /\ functions = EmptyMap /\ groups = EmptyMap
    /\ \E keys \in SUBSET ListKeys : buckets = [b \in BucketNames |-> keys]
    /\ tasks = [t \in TaskIds |-> IdleTask]
    /\ processEnv = InitialEnv
    /\ dirs = {}
    /\ invs = [i \in InvIds |-> IdleInv]

\* one call of a client and its answer, as the client's history keeps it
Page(input, output) == [input |-> input, output |-> output]

\* a client calls listObjectsV2 with a request of its choice
ListObjects(bucketName, input) ==
    /\ tasks[1].pc = "idle"
    /\ \E output \in {listObjectsV2(buckets, bucketName, input)} :
          tasks' = [tasks EXCEPT ![1].op = "list", ![1].stack = bucketName,
                       ![1].calls = <<Page(input, output)>>,
                       ![1].todo = output.keys,
                       ![1].pc = IF output.ok /\ output.isTruncated THEN "listing" ELSE "done",
                       ![1].result = IF output.ok THEN "returned" ELSE "threw"]
    /\ UNCHANGED <<stacks, functions, groups, buckets>>
    /\ UNCHANGED rtVars

\* the client asks for the next page with the token of the last answer, if
\* there is one, and the same prefix and max-keys
ListNextPage ==
    /\ tasks[1].pc = "listing"
    /\ Len(tasks[1].calls) < MaxPages
    /\ LET last == tasks[1].calls[Len(tasks[1].calls)]
           input == [last.input EXCEPT !.continuationToken = last.output.nextContinuationToken]
       IN \E output \in {listObjectsV2(buckets, tasks[1].stack, input)} :
             tasks' = [tasks EXCEPT ![1].calls = Append(@, Page(input, output)),
                          ![1].todo = @ \o output.keys,
                          ![1].pc = IF output.isTruncated THEN "listing" ELSE "done"]
    /\ UNCHANGED <<stacks, functions, groups, buckets>>
    /\ UNCHANGED rtVars

ListInputs == [prefix : ListPrefixes, maxKeys : ListMaxKeys, continuationToken : ListTokens]

ListNext ==
    \/ \E b \in BucketNames \cup {"b2"}, input \in ListInputs : ListObjects(b, input)
    \/ ListNextPage

SpecList == InitList /\ [][ListNext]_vars

\* the keys of the bucket that a request is about: those with the prefix and,
\* when a token is given, greater than the token
Candidates(bucketName, input) ==
    {key \in buckets[bucketName] :
        /\ startsWith(key, input.prefix)
        /\ input.continuationToken # <<>> => GreaterThan(key, input.continuationToken[1])}

\* C32: the page of every listObjectsV2 call holds at most maxKeys keys, all
\* greater than the token of the request; isTruncated tells whether keys the
\* request is about are left after the page; a truncated answer carries a
\* nextContinuationToken, the last key of the page.
C32_PageWithinBoundsAndAfterToken ==
    \A k \in 1..Len(tasks[1].calls) :
        LET input == tasks[1].calls[k].input
            output == tasks[1].calls[k].output
        IN (tasks[1].op = "list" /\ output.ok) =>
              /\ Len(output.keys) <= output.maxKeys
              /\ input.continuationToken # <<>> =>
                    \A i \in 1..Len(output.keys) :
                       GreaterThan(output.keys[i], input.continuationToken[1])
              /\ output.isTruncated <=>
                    (Candidates(tasks[1].stack, input) \ Range(output.keys)) # {}
              /\ output.isTruncated =>
                    /\ output.keys # <<>>
                    /\ output.nextContinuationToken = <<output.keys[Len(output.keys)]>>

\* C40: a client that starts without a token and with maxKeys >= 1 and follows
\* the tokens until isTruncated is false has received every key with the
\* prefix exactly once, in ascending order.
C40_PaginationIsComplete ==
    (/\ tasks[1].op = "list" /\ tasks[1].pc = "done" /\ tasks[1].result = "returned"
     /\ tasks[1].calls[1].input.continuationToken = <<>>
     /\ tasks[1].calls[1].output.maxKeys >= 1) =>
        LET received == tasks[1].todo
            prefix == tasks[1].calls[1].input.prefix
        IN /\ Range(received) = {key \in buckets[tasks[1].stack] : startsWith(key, prefix)}
           /\ \A i, j \in 1..Len(received) : i < j => localeCompare(received[i], received[j]) < 0

----------------------------------------------------------------------------
(* The object store: buckets and their objects *)

StoreKeys == {"k", "l"}

\* createBucket called directly
DirectCreateBucket(name) ==
    /\ LET r == createBucket(buckets, name) IN r.ok /\ buckets' = r.buckets
    /\ UNCHANGED <<stacks, functions, groups, tasks>>
    /\ UNCHANGED rtVars

\* deleteBucket called directly, whatever its outcome; the caller keeps it
DeleteBucketCall(t, name) ==
    /\ CanStart(t)
    /\ LET r == deleteBucket(buckets, name)
       IN /\ buckets' = r.buckets
          /\ tasks' = [tasks EXCEPT ![t] = [IdleTask EXCEPT !.op = "deleteBucket", !.stack = name,
                          !.pc = "done", !.calls = <<Call("delete", name, r.ok, r.err)>>,
                          !.result = IF r.ok THEN "returned" ELSE "threw"]]
    /\ UNCHANGED <<stacks, functions, groups>>
    /\ UNCHANGED rtVars

StoreNext ==
    \/ \E name \in BucketNames : DirectCreateBucket(name)
    \/ \E name \in BucketNames, key \in StoreKeys : DirectPutObject(name, key)
    \/ \E name \in BucketNames, key \in StoreKeys : DirectDeleteObject(name, key)
    \/ \E t \in TaskIds, name \in BucketNames : DeleteBucketCall(t, name)

SpecStore == Init /\ [][StoreNext]_vars

\* C33: deleteBucket on a bucket that holds an object throws BucketNotEmpty
\* and leaves every bucket and object as it was; on a bucket that holds none
\* it returns and the bucket is gone.
C33_NonEmptyBucketIsKept ==
    [][\A t \in TaskIds, name \in BucketNames :
          (DeleteBucketCall(t, name) /\ name \in DOMAIN buckets) =>
              IF buckets[name] # {}
              THEN /\ tasks'[t].result = "threw"
                   /\ tasks'[t].calls[1].code = "BucketNotEmpty"
                   /\ buckets' = buckets
              ELSE /\ tasks'[t].result = "returned"
                   /\ name \notin DOMAIN buckets']_vars

\* a deleteBucket that failed on two objects, a second one that succeeded
\* after both were deleted
C33_Witness ==
    \E u, t \in TaskIds :
        /\ u < t /\ tasks[u].op = "deleteBucket" /\ tasks[t].op = "deleteBucket"
        /\ tasks[u].stack = tasks[t].stack
        /\ tasks[u].result = "threw" /\ tasks[u].calls[1].code = "BucketNotEmpty"
        /\ tasks[t].result = "returned"
        /\ tasks[t].stack \notin DOMAIN buckets

----------------------------------------------------------------------------
(* References during updateStack *)

\* createStack's loop run to its end on a stack record and backends: whether
\* every resource was created
RECURSIVE RunCreate(_, _, _, _)
RunCreate(stack, resources, todo, be) ==
    IF todo = <<>> THEN TRUE
    ELSE LET r == CreateOne(stack, Lookup(resources, Head(todo)), be,
                            "CREATE_IN_PROGRESS", "CREATE_COMPLETE", "CREATE_FAILED")
         IN r.ok /\ RunCreate(r.stack, resources, Tail(todo), r.be)

\* createStack brings the template to CREATE_COMPLETE on empty backends
CreatesOnEmptyBackends(body) ==
    /\ TemplateAccepted(body)
    /\ RunCreate([templateBody |-> body, stackStatus |-> "CREATE_IN_PROGRESS",
                  stackStatusReason |-> NoReason, resources |-> <<>>,
                  events |-> <<>>, creationOrder |-> <<>>],
                 parseTemplate(body).Resources,
                 computeCreationOrder(parseTemplate(body).Resources).order,
                 [functions |-> EmptyMap, groups |-> EmptyMap, buckets |-> EmptyMap])

\* C34: in updateStack the creation of a resource with { Ref: X }, X created
\* earlier in the same update, does not fail on the reference; and an update
\* to a template that createStack completes on empty backends, on a stack
\* whose resources were all deleted, ends UPDATE_COMPLETE.
C34_RefResolvesDuringUpdate ==
    \A t \in TaskIds :
        (tasks[t].op = "update" /\ tasks[t].result # "threw") =>
            LET calls == tasks[t].calls
                resources == parseTemplate(tasks[t].nextBody).Resources
            IN /\ \A k \in 1..Len(calls) :
                     (/\ calls[k].kind = "create"
                      /\ Lookup(resources, calls[k].id).Ref # ""
                      /\ \E j \in 1..(k - 1) :
                            /\ calls[j].kind = "create" /\ calls[j].ok
                            /\ calls[j].id = Lookup(resources, calls[k].id).Ref)
                        => calls[k].code # "ValidationError"
               /\ (/\ tasks[t].pc = "done" /\ IsLatest(t)
                   /\ CreatesOnEmptyBackends(tasks[t].nextBody)
                   /\ \A k \in 1..Len(calls) : calls[k].kind = "delete" => calls[k].ok
                   /\ Len(CallsOfKind(calls, "delete")) = Len(tasks[t].startOrder)
                   /\ Len(tasks[t].startResources) = Len(tasks[t].startOrder))
                     => stacks[tasks[t].stack].stackStatus = "UPDATE_COMPLETE"

----------------------------------------------------------------------------
(* The stack after a rollback *)

\* getTemplate: the template body of the stack
getTemplate(registry, stackName) == registry[stackName].templateBody

\* the stack of task t in the registry is the stack of its previous template,
\* freshly created in the backends be, after the adapter calls
RolledBack(t, registry, calls, be) ==
    LET stack == registry[tasks[t].stack]
        previous == parseTemplate(tasks[t].previousBody).Resources
        order == computeCreationOrder(previous).order
    IN /\ getTemplate(registry, tasks[t].stack) = tasks[t].previousBody
       /\ stack.creationOrder = order
       /\ Len(stack.resources) = Len(order)
       /\ \A k \in 1..Len(order) :
             /\ stack.resources[k].logicalResourceId = order[k]
             /\ stack.resources[k].resourceType = Lookup(previous, order[k]).Type
             /\ stack.resources[k].resourceStatus = "CREATE_COMPLETE"
             /\ stack.resources[k].physicalResourceId = Lookup(previous, order[k]).Name
             /\ Provisioned(stack.resources[k], be)
       /\ \A k \in 1..Len(calls) :
             (calls[k].kind = "create" /\ calls[k].ok) =>
                \E j \in (k + 1)..Len(calls) :
                   /\ calls[j].kind = "rb_delete" /\ calls[j].id = calls[k].id
                   /\ calls[j].ok

\* C35: when updateStack returns with the stack UPDATE_ROLLBACK_COMPLETE,
\* getTemplate returns the body the stack had before the update, the resource
\* records are those of that template's resources in its creation order, each
\* CREATE_COMPLETE with its physical id and its object in the backend,
\* creationOrder is that order, and every resource the failed update had
\* created was deleted by the rollback.
C35_RollbackRestoresPreviousTemplate ==
    [][\A t \in TaskIds :
          (/\ tasks[t].pc = "rb_creating" /\ tasks'[t].pc = "done"
           /\ stacks'[tasks[t].stack].stackStatus = "UPDATE_ROLLBACK_COMPLETE")
             => RolledBack(t, stacks', tasks'[t].calls,
                           [functions |-> functions', groups |-> groups', buckets |-> buckets'])]_vars

\* an update from the bucket template created a log group, failed on the next
\* resource, deleted the log group again and re-created the bucket
C35_Witness ==
    \E t \in TaskIds :
        /\ tasks[t].op = "update" /\ tasks[t].pc = "done" /\ IsLatest(t)
        /\ tasks[t].result = "returned"
        /\ stacks[tasks[t].stack].stackStatus = "UPDATE_ROLLBACK_COMPLETE"
        /\ tasks[t].previousBody = TBucket
        /\ \E k \in 1..Len(tasks[t].calls) :
              tasks[t].calls[k].kind = "create" /\ tasks[t].calls[k].ok
        /\ "b1" \in DOMAIN buckets /\ groups = EmptyMap


----------------------------------------------------------------------------
(* Two stacks over the same backends *)

SharedStackNames == {"s1", "s2"}

SharedTemplates == {TBucket, TThree}

\* stack operations on two stacks, one at a time, and direct calls on the
\* function registry, the log ledger and the object store between them
SharedNext ==
    \/ \E t \in TaskIds, name \in SharedStackNames, body \in SharedTemplates :
          \/ CreateStackReject(t, name, body)
          \/ CreateStackBegin(t, name, body)
          \/ UpdateStackReject(t, name, body)
          \/ UpdateStackBegin(t, name, body)
    \/ \E t \in TaskIds, name \in SharedStackNames :
          \/ DeleteStackNoop(t, name)
          \/ DeleteStackBegin(t, name)
    \/ \E t \in TaskIds :
          \/ CreateStackStep(t)
          \/ CreateStackComplete(t)
          \/ DeleteStackStep(t)
          \/ DeleteStackComplete(t)
          \/ UpdateDeleteStep(t)
          \/ UpdateReset(t)
          \/ UpdateCreateStep(t)
          \/ UpdateComplete(t)
          \/ UpdateFail(t)
          \/ RollbackBegin(t)
          \/ RollbackDeleteStep(t)
          \/ RollbackReset(t)
          \/ RollbackCreateStep(t)
          \/ RollbackComplete(t)
    \/ \E name \in FunctionNames : DirectDeleteFunction(name)
    \/ \E name \in GroupNames : DirectDeleteLogGroup(name)
    \/ \E name \in BucketNames : DirectDeleteBucket(name)
    \/ \E name \in BucketNames, key \in ObjectKeys :
          \/ DirectPutObject(name, key)
          \/ DirectDeleteObject(name, key)

SpecShared == Init /\ [][SharedNext]_vars

\* the records of a stack that say the resource was created
CreatedRecords(stack) ==
    { stack.resources[k] : k \in { i \in 1..Len(stack.resources) :
          stack.resources[i].resourceStatus \in {"CREATE_COMPLETE", "UPDATE_COMPLETE"} } }

\* C36: no step of a deleteStack or updateStack of one stack removes from its
\* backend an object that a record of a different stack holds as created.
C36_OtherStacksResourcesSurvive ==
    [][\A t \in TaskIds :
          (/\ tasks'[t] # tasks[t]
           /\ tasks'[t].op \in {"delete", "update"}
           /\ tasks'[t].result # "threw")
             => \A other \in DOMAIN stacks \ {tasks'[t].stack} :
                   \A record \in CreatedRecords(stacks[other]) :
                      Provisioned(record, BE) => Provisioned(record, BE)']_vars



----------------------------------------------------------------------------
(* Termination of the stack operations *)

\* the continuation of the operation in flight: the event loop runs it as soon
\* as the awaited adapter call has settled
StackStep ==
    \E t \in TaskIds :
        \/ CreateStackStep(t)
        \/ CreateStackComplete(t)
        \/ DeleteStackStep(t)
        \/ DeleteStackComplete(t)
        \/ UpdateDeleteStep(t)
        \/ UpdateReset(t)
        \/ UpdateCreateStep(t)
        \/ UpdateComplete(t)
        \/ UpdateFail(t)
        \/ RollbackBegin(t)
        \/ RollbackDeleteStep(t)
        \/ RollbackReset(t)
        \/ RollbackCreateStep(t)
        \/ RollbackComplete(t)

TermTemplates == {TBucket, TTopic}

\* stack operations one at a time on two templates, one of them with a
\* resource no adapter creates, and the direct call that makes the bucket's
\* adapters fail: an object put into it
TermNext ==
    \/ \E t \in TaskIds, name \in InputStackNames, body \in TermTemplates :
          \/ CreateStackReject(t, name, body)
          \/ CreateStackBegin(t, name, body)
          \/ UpdateStackReject(t, name, body)
          \/ UpdateStackBegin(t, name, body)
    \/ \E t \in TaskIds, name \in InputStackNames :
          \/ DeleteStackNoop(t, name)
          \/ DeleteStackBegin(t, name)
    \/ StackStep
    \/ \E name \in BucketNames, key \in ObjectKeys : DirectPutObject(name, key)

\* the operation in flight is always resumed
SpecFair == Init /\ [][TermNext]_vars /\ WF_vars(StackStep)

\* C37: a createStack, updateStack or deleteStack that passed validation
\* returns, whatever its adapter calls did, and at its return the stack is in
\* one of the seven terminal statuses.
C37_OperationsEndInTerminalStatus ==
    /\ [][\A t \in TaskIds :
             (tasks[t].pc # "done" /\ tasks'[t].pc = "done" /\ tasks'[t].result = "returned")
                => stacks'[tasks'[t].stack].stackStatus \in TerminalStatuses]_vars
    /\ \A t \in TaskIds :
          InFlight(t) ~> (tasks[t].pc = "done" /\ tasks[t].result = "returned")

\* an update whose adapters failed twice, in the update and in the rollback,
\* has returned
C37_Witness ==
    \E t \in TaskIds :
        /\ tasks[t].op = "update" /\ tasks[t].pc = "done" /\ tasks[t].result = "returned"
        /\ IsLatest(t)
        /\ stacks[tasks[t].stack].stackStatus = "UPDATE_ROLLBACK_FAILED"
        /\ \E j, k \in 1..Len(tasks[t].calls) :
              /\ tasks[t].calls[j].kind = "create" /\ ~tasks[t].calls[j].ok
              /\ tasks[t].calls[k].kind = "rb_create" /\ ~tasks[t].calls[k].ok


----------------------------------------------------------------------------
(* A rejected update *)

\* C38: an updateStack that rejects leaves every stack record (status, reason,
\* template body, resources, creationOrder, events) and the backends as they
\* were and has called no adapter; and updateStack does reject when the stack
\* does not exist or the new template is one of the invalid ones.
C38_RejectedUpdateChangesNothing ==
    [][\A t \in TaskIds :
          (tasks[t].pc = "idle" /\ tasks'[t].op = "update") =>
             IF tasks'[t].result = "threw"
             THEN /\ stacks' = stacks
                  /\ functions' = functions /\ groups' = groups /\ buckets' = buckets
                  /\ tasks'[t].calls = <<>>
             ELSE /\ tasks'[t].stack \in DOMAIN stacks
                  /\ ~InvalidTemplate(tasks'[t].nextBody)]_vars

\* an updateStack was rejected on a stack that holds resources and is not
\* in flight
C38_Witness ==
    \E t \in TaskIds :
        /\ tasks[t].op = "update" /\ tasks[t].pc = "done" /\ tasks[t].result = "threw"
        /\ IsLatest(t)
        /\ \E n \in DOMAIN stacks :
              /\ stacks[n].stackStatus = "CREATE_COMPLETE"
              /\ stacks[n].resources # <<>> /\ stacks[n].creationOrder # <<>>


----------------------------------------------------------------------------
(* A deleted stack *)

\* describeStacks(name): the summary of the stack, none when requireStack throws
describeStacks(registry, stackName) ==
    IF stackName \in DOMAIN registry
    THEN << [stackName |-> stackName, stackStatus |-> registry[stackName].stackStatus] >>
    ELSE << >>

\* C39: no step removes a stack from the registry; the deleteStack that
\* completes leaves a stack that describeStacks returns as DELETE_COMPLETE; a
\* deleteStack on a DELETE_COMPLETE stack returns and changes neither a stack
\* record (status, events) nor a backend and calls no adapter; a createStack
\* with the name of a DELETE_COMPLETE stack throws and changes nothing.
C39_DeletedStackStaysRegistered ==
    [][/\ DOMAIN stacks \subseteq DOMAIN stacks'
       /\ \A t \in TaskIds :
             (/\ tasks[t].pc = "deleting" /\ tasks'[t].pc = "done"
              /\ tasks[t].calls = tasks'[t].calls)
                => describeStacks(stacks', tasks[t].stack) =
                      << [stackName |-> tasks[t].stack, stackStatus |-> "DELETE_COMPLETE"] >>
       /\ \A t \in TaskIds, n \in DOMAIN stacks :
             (/\ stacks[n].stackStatus = "DELETE_COMPLETE"
              /\ tasks[t].pc = "idle" /\ tasks'[t].op = "delete" /\ tasks'[t].stack = n)
                => /\ stacks' = stacks
                   /\ functions' = functions /\ groups' = groups /\ buckets' = buckets
                   /\ tasks'[t].pc = "done" /\ tasks'[t].result = "returned"
                   /\ tasks'[t].calls = <<>>
       /\ \A t \in TaskIds :
             (tasks[t].pc = "idle" /\ tasks'[t].op = "create") =>
                IF tasks'[t].result = "threw"
                THEN stacks' = stacks
                ELSE tasks'[t].stack \notin DOMAIN stacks]_vars

\* after a deleteStack that deleted the resources of a stack, a second
\* deleteStack on the same stack has returned without an adapter call
C39_Witness ==
    \E t, u \in TaskIds :
        /\ t < u
        /\ tasks[t].op = "delete" /\ tasks[t].pc = "done" /\ tasks[t].calls # <<>>
        /\ tasks[u].op = "delete" /\ tasks[u].pc = "done" /\ tasks[u].calls = <<>>
        /\ tasks[u].stack = tasks[t].stack /\ tasks[u].result = "returned"
        /\ describeStacks(stacks, tasks[t].stack) =
              << [stackName |-> tasks[t].stack, stackStatus |-> "DELETE_COMPLETE"] >>

====
